---- MODULE Spec2Model ----
(***************************************************************************)
(* Model of the documentation pipeline of .github/scripts/generate_docs.py *)
(*                                                                         *)
(* Several state machines share this module:                               *)
(*   Spec     - main(): validation, cleaning, the per-file loop with its   *)
(*              external processes, and site assembly;                     *)
(*   SpecHtml - insert_css_link_in_html / insert_javascript_in_html        *)
(*              applied repeatedly to one HTML file;                       *)
(*   SpecPy   - process_python_file, one loop iteration per step;          *)
(*   SpecSeo, SpecTree, SpecInc, SpecLinks, SpecPrefix, SpecNotebook,      *)
(*   SpecFind - the helpers of generate_docs.py, one call each;            *)
(*   SpecFix  - fix_html_file of fix_empty_anchors.py.                     *)
(* Text is modelled as sequences of tokens; a token stands for the         *)
(* literal text written in its name.                                       *)
(***************************************************************************)
EXTENDS Integers, Sequences, FiniteSets, TLC

VARIABLES
    \* ---- main() and process_file_with_page2html_logic ----
    pc,              \* position of main()
    step,            \* position inside the per-file loop body
    idx,             \* 1-based index of the current file in source_files
    proc,            \* state of the external child process being waited for
    FORCE_REBUILD,   \* --force-rebuild
    missing,         \* prerequisites absent from the machine
    source_files,    \* result of find_source_files (sorted)
    generated_files, \* the registry: source file -> output path
    fs,              \* files under docs/: path -> content
    dirs,            \* directories that exist under docs/
    fs0,             \* fs at the start of the run (history)
    failed,          \* files for which processing returned False (history)
    file_errors,     \* files during whose handling a failure occurred (history)
    executed,        \* <<file, stage>> pairs that were executed (history)
    used,            \* registry as read by each assembly step (history)
    pandoc_input_content, \* markup of the file being processed
    literate,        \* how the literate-c run for the current file went
    handed,          \* markup given to pandoc on stdin, per file (history)
    seo_reads,       \* SEO comments extract_seo_metadata read, per file (history)
    \* ---- insert_css_link_in_html / insert_javascript_in_html ----
    html_content,    \* content of the HTML file
    html_once,       \* content after the first application
    html_orig,       \* content before the first application
    html_op,         \* which injection is being applied
    html_count,      \* number of applications so far
    is_root,         \* argument of insert_css_link_in_html
    \* ---- process_python_file ----
    lines,           \* file_content.split('\n')
    py_i,            \* index of the next line to read
    processed_lines,
    in_code_block,
    code_block,
    in_docstring,
    docstring_lines,
    py_done,         \* the function has returned
    \* ---- extract_seo_metadata ----
    seo_stem,        \* file_path.stem, split into words
    seo_content,     \* the content argument
    seo_metadata,    \* the dictionary returned
    seo_state,       \* called, returned (on which path) or raised
    seo_first,       \* what an earlier run returned for the same arguments
    \* ---- convert_directory_tree_to_html ----
    tree_lines,      \* tree_text.split('\n')
    tree_i,          \* index of the next line to read
    path_stack,
    prev_indent,
    html_structure,  \* the list items appended so far
    tree_state,      \* parsing, returned or raised
    \* ---- post_process_c_html: create_include_link ----
    inc_file,        \* file_path, the source file of the page
    inc_local,       \* names of the files in src-local
    inc_includes,    \* the names matched by include_pattern, in order
    inc_i,           \* index of the next match
    inc_links,       \* the link made for each match
    inc_state,       \* rewriting or returned
    \* ---- post_process_python_shell_html: fix_doc_links ----
    link_html,       \* the anchors of processed_html, in order
    link_i,          \* index of the next anchor
    link_out,        \* the anchors of the result so far
    link_state,      \* substituting or returned
    \* ---- calculate_asset_prefix ----
    output_path,     \* the path of the page, as its segments
    docs_dir,        \* the documentation root, as its segments
    asset_path_prefix, \* the value returned
    prefix_state,    \* called or returned
    \* ---- process_jupyter_notebook ----
    nb_cells,        \* notebook_data.get('cells', [])
    nb_i,            \* index of the next cell
    notebook_title,
    notebook_description, \* the lines of the description
    notebook_features,
    nb_state,        \* scanning, scanned or returned
    \* ---- find_source_files ----
    repo_files,      \* the files of the repository, each the sequence of its parts
    find_i,          \* index of the next entry of source_dirs
    files,
    find_result,     \* the list returned
    find_state,      \* scanning or returned
    \* ---- fix_empty_anchors.py: fix_html_file ----
    html_file,       \* the content of the file at file_path
    html_file0,      \* the content before the call (history)
    dry_run,
    replacements,    \* the value returned
    fix_state        \* called, returned or failed

pipeVars == <<pc, step, idx, proc, FORCE_REBUILD, missing, source_files,
              generated_files, fs, dirs, fs0, failed, file_errors, executed, used,
              pandoc_input_content, literate, handed, seo_reads>>
htmlVars == <<html_content, html_once, html_orig, html_op, html_count, is_root>>
pyVars   == <<lines, py_i, processed_lines, in_code_block, code_block,
              in_docstring, docstring_lines, py_done>>
seoVars  == <<seo_stem, seo_content, seo_metadata, seo_state, seo_first>>
treeVars == <<tree_lines, tree_i, path_stack, prev_indent, html_structure, tree_state>>
incVars  == <<inc_file, inc_local, inc_includes, inc_i, inc_links, inc_state>>
linkVars == <<link_html, link_i, link_out, link_state>>
prefVars == <<output_path, docs_dir, asset_path_prefix, prefix_state>>
nbVars == <<nb_cells, nb_i, notebook_title, notebook_description, notebook_features, nb_state>>
findVars == <<repo_files, find_i, files, find_result, find_state>>
fixVars == <<html_file, html_file0, dry_run, replacements, fix_state>>
moreVars == <<linkVars, prefVars, nbVars, findVars, fixVars>>
auxVars  == <<seoVars, treeVars, incVars, moreVars>>
oldVars  == <<pipeVars, htmlVars, pyVars, seoVars, treeVars, incVars>>
vars     == <<pipeVars, htmlVars, pyVars, auxVars>>

(***************************************************************************)
(* Bounds                                                                  *)
(***************************************************************************)
MaxFiles   == 2   \* number of discovered source files in a run
MaxHtmlLen == 3   \* tokens of the HTML file before injection
MaxLines   == 4   \* lines of the python script

(***************************************************************************)
(* Generic helpers on sequences                                            *)
(***************************************************************************)
Has(s, t) == \E i \in 1..Len(s) : s[i] = t

\* str.find for a one-token needle: 1-based index of the first occurrence, 0 if none
Find(s, t) == IF Has(s, t) THEN CHOOSE i \in 1..Len(s) : s[i] = t /\ \A j \in 1..(i-1) : s[j] # t
              ELSE 0

Prefix(s, n) == SubSeq(s, 1, n)
Suffix(s, n) == SubSeq(s, n, Len(s))

RECURSIVE SeqsUpTo(_, _)
SeqsUpTo(S, n) == IF n = 0 THEN {<<>>}
                  ELSE LET shorter == SeqsUpTo(S, n - 1)
                       IN shorter \cup {Append(s, x) : s \in {t \in shorter : Len(t) = n - 1}, x \in S}

(***************************************************************************)
(* Paths.  A path is [dir: sequence of directory names, name: sequence of  *)
(* tokens of the file name]; "." is a token of its own.                    *)
(***************************************************************************)
Html == <<".", "html">>

\* pathlib: PurePath.suffix
PathSuffix(name) ==
    LET dots == {i \in 1..Len(name) : name[i] = "."}
    IN IF dots = {} THEN <<>>
       ELSE LET i == CHOOSE d \in dots : \A e \in dots : e <= d
            IN IF i > 1 /\ i < Len(name) THEN SubSeq(name, i, Len(name)) ELSE <<>>

\* pathlib: PurePath.with_suffix
WithSuffix(name, sfx) == SubSeq(name, 1, Len(name) - Len(PathSuffix(name))) \o sfx

REPO_ROOT_Makefile == [dir |-> <<>>,              name |-> <<"Makefile">>]
postProcess_n_ipynb == [dir |-> <<"postProcess">>, name |-> <<"n", ".", "ipynb">>]
postProcess_v_py   == [dir |-> <<"postProcess">>, name |-> <<"v", ".", "1", ".", "py">>]
src_local_a_c      == [dir |-> <<"src-local">>,   name |-> <<"a", ".", "c">>]
src_local_a_h      == [dir |-> <<"src-local">>,   name |-> <<"a", ".", "h">>]

\* the candidate source files, in the order sorted() gives them
UniverseSorted == <<REPO_ROOT_Makefile, postProcess_n_ipynb, postProcess_v_py,
                    src_local_a_c, src_local_a_h>>
Universe == {UniverseSorted[i] : i \in 1..Len(UniverseSorted)}

SOURCE_DIRS == {"src-local", "simulationCases", "postProcess"}

DOCS_DIR == <<"docs">>

OutputHtmlPath_replace(f) ==
    [dir |-> DOCS_DIR \o f.dir, name |-> WithSuffix(f.name, Html)]

\* main: DOCS_DIR / relative_path.with_suffix(relative_path.suffix + '.html')
OutputHtmlPath(f) ==
    [dir |-> DOCS_DIR \o f.dir, name |-> WithSuffix(f.name, PathSuffix(f.name) \o Html)]

IndexName == <<"index", ".", "html">>
DirIndexPath(d) == [dir |-> DOCS_DIR \o <<d>>, name |-> IndexName]
INDEX_PATH == [dir |-> DOCS_DIR, name |-> IndexName]

AllPaths == {OutputHtmlPath(f) : f \in Universe}
            \cup {OutputHtmlPath_replace(f) : f \in Universe}
            \cup {DirIndexPath(d) : d \in SOURCE_DIRS} \cup {INDEX_PATH}

Absent == <<"(absent)">>

\* process_file_with_page2html_logic: the post-processing branch of a file
IsPyShellBranch(f) == PathSuffix(f.name) \in {<<".", "py">>, <<".", "sh">>, <<".", "md">>, <<".", "ipynb">>}

\* prepare_pandoc_input: the files handed to process_c_file
IsCFile(f) == /\ PathSuffix(f.name) \notin {<<".", "md">>, <<".", "py">>, <<".", "sh">>, <<".", "ipynb">>}
              /\ f.name # <<"Makefile">>

\* process_file_with_page2html_logic: is_jupyter_notebook
IsNotebook(f) == PathSuffix(f.name) = <<".", "ipynb">>


(***************************************************************************)
(* HTML text.  A token stands for the literal text in its name; `in` and   *)
(* str.find are token searches.                                            *)
(***************************************************************************)
CopyButtonMarker == "class=\"copy-button\""
LinkRootMarker   == "link href=\"custom_styles.css\""
LinkSubMarker    == "link href=\"../custom_styles.css\""
LinkAttrs        == " rel=\"stylesheet\" type=\"text/css\" />"
RepoScript       == "<script>window.repoName = REPO_NAME;</script>"

\* insert_javascript_in_html: the literal copy_js
copy_js == <<"<script type=\"text/javascript\">",
             "button.className = 'copy-button';",
             "</script>">>

ShellOpen  == <<"<!DOCTYPE html>", "<html>", "<head>", "<meta http-equiv>">>
ShellMid   == <<"</head>", "<body>">>
ShellClose == <<"</body>", "</html>">>

\* insert_javascript_in_html: the early return on the injection marker
JsAlreadyPresent(content) == Has(content, CopyButtonMarker)

\* insert_javascript_in_html: file content after the call
InsertJavascriptInHtml(content) ==
    IF JsAlreadyPresent(content) THEN content
    ELSE LET body_end_idx == Find(content, "</body>")
             body_start_idx == Find(content, "<body>")
         IN IF body_end_idx = 0
            THEN IF body_start_idx # 0
                 THEN content \o copy_js
                 ELSE ShellOpen \o ShellMid \o content \o copy_js \o ShellClose
            ELSE Prefix(content, body_end_idx - 1) \o copy_js \o Suffix(content, body_end_idx)

css_link(root) == <<"<", IF root THEN LinkRootMarker ELSE LinkSubMarker, LinkAttrs>>

CssAlreadyLinked_own(content, root) ==
    Has(content, IF root THEN LinkSubMarker ELSE LinkRootMarker)

\* insert_css_link_in_html: the early return when a link to the stylesheet exists
CssAlreadyLinked(content, root) ==
    Has(content, LinkRootMarker) \/ Has(content, LinkSubMarker)

\* insert_css_link_in_html: file content after the call
InsertCssLinkInHtml(content, root) ==
    IF CssAlreadyLinked(content, root) THEN content
    ELSE LET head_end_idx == Find(content, "</head>")
             head_start_idx == Find(content, "<head>")
         IN IF head_end_idx = 0
            THEN IF head_start_idx # 0
                 THEN Prefix(content, head_start_idx) \o <<"\n    ">> \o css_link(root)
                      \o Suffix(content, head_start_idx + 1)
                 ELSE ShellOpen \o css_link(root) \o ShellMid \o content \o ShellClose
            ELSE Prefix(content, head_end_idx - 1) \o <<"    ">> \o css_link(root)
                 \o <<"\n    ">> \o Suffix(content, head_end_idx)

\* post_process_python_shell_html / post_process_c_html: the repoName script
\* is inserted after every <body> tag
RECURSIVE AddRepoName(_)
AddRepoName(content) ==
    IF content = <<>> THEN <<>>
    ELSE IF Head(content) = "<body>"
         THEN <<"<body>", RepoScript>> \o AddRepoName(Tail(content))
         ELSE <<Head(content)>> \o AddRepoName(Tail(content))

\* what the typesetting engine writes: a full page, or a fragment when the
\* template gives no document shell
PandocPage     == <<"<!DOCTYPE html>", "<html>", "<head>", "</head>", "<body>", "page", "</body>", "</html>">>
PandocFragment == <<"page">>

(***************************************************************************)
(* Markup.  What prepare_pandoc_input returns, as a sequence of tokens.    *)
(***************************************************************************)
SeoComment == "<!--SEO_METADATA:{json}-->"

\* process_jupyter_notebook: the embed, with the metadata comment put in front
NotebookMarkup == <<SeoComment, "<div class=\"jupyter-notebook-embed\">">>

\* process_jupyter_notebook: except Exception
NotebookErrorMarkup == <<"# name", "Error processing notebook">>

\* process_shell_file / process_python_file: heading and fenced code
ScriptMarkup == <<"# name", "(fence)", "file content", "(fence)">>

\* process_c_file: markdown_content
PlainCBlock == <<"# name", "(fence)c", "file content", "(fence)">>

\* what literate-c may write to its standard output
LiterateOutputs == {<<>>, <<" ">>, <<"prose", "~~~literatec", "code", "~~~">>}

\* str.strip() is empty
BlankText(content) == \A i \in 1..Len(content) : content[i] = " "

\* process_c_file: content.replace('~~~literatec', '~~~c')
RenameLiterateFences(content) ==
    [i \in 1..Len(content) |-> IF content[i] = "~~~literatec" THEN "~~~c" ELSE content[i]]

NoRun == [outcome |-> "none", returncode |-> 0, content |-> <<>>]

ProcessCFileResult_anyexit(run) ==
    IF run.outcome = "not_started" THEN PlainCBlock
    ELSE IF ~BlankText(run.content)
         THEN RenameLiterateFences(run.content)
         ELSE PlainCBlock

\* process_c_file: the value returned for a literate-c run
ProcessCFileResult(run) ==
    IF run.outcome = "not_started" THEN PlainCBlock                \* except Exception
    ELSE IF run.returncode = 0 /\ ~BlankText(run.content)
         THEN RenameLiterateFences(run.content)
         ELSE PlainCBlock

\* prepare_pandoc_input: what the in-process transformers can return
InProcessMarkup(f) == IF IsNotebook(f) THEN {NotebookMarkup, NotebookErrorMarkup}
                      ELSE {ScriptMarkup}

\* sanitize_pandoc_input: self-closing anchors are opened and closed
SanitizePandocInput(content) ==
    [i \in 1..Len(content) |-> IF content[i] = "<a/>" THEN "<a></a>" ELSE content[i]]

\* extract_seo_metadata: re.search(r'<!--SEO_METADATA:(.*?)-->', content)
SeoCommentFound(content) == Has(content, SeoComment)

\* pandoc -f markdown+raw_html: an HTML comment of the input is raw HTML and
\* is written to the body of the page as it is
RECURSIVE PandocRender(_, _)
PandocRender(raw, input) ==
    IF raw = <<>> THEN <<>>
    ELSE IF Head(raw) = "page"
         THEN SelectSeq(input, LAMBDA t : t = SeoComment) \o <<"page">>
              \o PandocRender(Tail(raw), input)
         ELSE <<Head(raw)>> \o PandocRender(Tail(raw), input)

\* run_pandoc: the structure check after a successful conversion
RepairShell(content) ==
    IF ~Has(content, "<!DOCTYPE html>") \/ ~Has(content, "<html>")
    THEN ShellOpen \o ShellMid \o content \o ShellClose
    ELSE content


\* a page left under docs/ by an earlier run of the pipeline
OldPage == InsertJavascriptInHtml(AddRepoName(PandocPage))

(***************************************************************************)
(* main()                                                                  *)
(***************************************************************************)
Prerequisites == {"BASILISK_DIR", "DARCSIT_DIR", "TEMPLATE_PATH", "literate-c",
                  "pandoc", "decl_anchors.awk"}

\* validate_config: essential_paths
essential_paths == {"BASILISK_DIR", "DARCSIT_DIR", "TEMPLATE_PATH", "literate-c"}

Terminal == {"done", "returned", "crashed"}
WaitSteps == {"literate_wait", "pandoc_wait", "awk_wait"}
NoRegistry == [f \in {} |-> DOCS_DIR]

Files == {source_files[i] : i \in 1..Len(source_files)}
CurFile == source_files[idx]

LoopDone_first == idx > 1

\* main: for file_path in source_files - the loop is exhausted
LoopDone == idx > Len(source_files)

InLoop == pc = "loop" /\ ~LoopDone /\ idx <= Len(source_files)

Ancestors(d) == {Prefix(d, n) : n \in 1..Len(d)}

Register(f) == [g \in DOMAIN generated_files \cup {f} |->
                   IF g = f THEN OutputHtmlPath(f) ELSE generated_files[g]]

ReadBy(s) == [t \in DOMAIN used \cup {s} |-> IF t = s THEN generated_files ELSE used[t]]

InitPipe ==
    /\ pc = "validate" /\ step = "head" /\ idx = 1 /\ proc = "none"
    /\ FORCE_REBUILD \in BOOLEAN
    /\ missing \in {{}} \cup {{p} : p \in Prerequisites}
    /\ \E S \in SUBSET Universe :
         /\ Cardinality(S) <= MaxFiles
         /\ source_files = SelectSeq(UniverseSorted, LAMBDA f : f \in S)
         /\ \E E \in SUBSET S :
              /\ fs = [p \in AllPaths |-> IF \E f \in E : p = OutputHtmlPath(f)
                                          THEN OldPage ELSE Absent]
              /\ dirs = UNION {Ancestors(DOCS_DIR \o f.dir) : f \in E}
    /\ fs0 = fs
    /\ generated_files = NoRegistry
    /\ failed = {} /\ file_errors = {} /\ executed = {}
    /\ used = [s \in {} |-> NoRegistry]
    /\ pandoc_input_content = <<>> /\ literate = NoRun
    /\ handed = [f \in {} |-> <<>>] /\ seo_reads = [f \in {} |-> 0]

IdleHtml == /\ html_content = <<>> /\ html_once = <<>> /\ html_orig = <<>>
            /\ html_op = "none" /\ html_count = 0 /\ is_root = TRUE
IdlePy   == /\ lines = <<>> /\ py_i = 1 /\ processed_lines = <<>> /\ in_code_block = FALSE
            /\ code_block = <<>> /\ in_docstring = FALSE /\ docstring_lines = <<>>
            /\ py_done = TRUE

IdleSeo  == /\ seo_stem = <<>> /\ seo_state = "idle" /\ seo_first = <<>>
            /\ seo_content = [embedded |-> [kind |-> "none", description |-> <<"(no key)">>,
                                            keywords |-> {}],
                              paragraph |-> <<"(no match)">>, declared |-> {}]
            /\ seo_metadata = [description |-> <<"(no key)">>, keywords |-> {}]
IdleTree == /\ tree_lines = <<>> /\ tree_i = 1 /\ path_stack = <<>> /\ prev_indent = -1
            /\ html_structure = <<>> /\ tree_state = "idle"
IdleInc  == /\ inc_file = DOCS_DIR /\ inc_local = {} /\ inc_includes = <<>> /\ inc_i = 1
            /\ inc_links = <<>> /\ inc_state = "idle"
IdleLinks == link_html = <<>> /\ link_i = 1 /\ link_out = <<>> /\ link_state = "idle"
IdlePrefix == output_path = <<>> /\ docs_dir = <<>> /\ asset_path_prefix = <<>> /\ prefix_state = "idle"
IdleNotebook == nb_cells = <<>> /\ nb_i = 1 /\ notebook_title = "" /\ notebook_description = <<>> /\ notebook_features = <<>> /\ nb_state = "idle"
IdleFind == repo_files = {} /\ find_i = 1 /\ files = {} /\ find_result = <<>> /\ find_state = "idle"
IdleFix == html_file = <<>> /\ html_file0 = <<>> /\ dry_run = FALSE /\ replacements = 0 /\ fix_state = "idle"
IdleMore == IdleLinks /\ IdlePrefix /\ IdleNotebook /\ IdleFind /\ IdleFix
IdleAux  == IdleSeo /\ IdleTree /\ IdleInc /\ IdleMore

IdlePipe == /\ pc = "done" /\ step = "head" /\ idx = 1 /\ proc = "none"
            /\ FORCE_REBUILD = FALSE /\ missing = {} /\ source_files = <<>>
            /\ generated_files = NoRegistry
            /\ fs = [p \in AllPaths |-> Absent] /\ dirs = {} /\ fs0 = fs
            /\ failed = {} /\ file_errors = {} /\ executed = {}
            /\ used = [s \in {} |-> NoRegistry]
            /\ pandoc_input_content = <<>> /\ literate = NoRun
            /\ handed = [f \in {} |-> <<>>] /\ seo_reads = [f \in {} |-> 0]

IdleOld == IdlePipe /\ IdleHtml /\ IdlePy /\ IdleSeo /\ IdleTree /\ IdleInc

Init == InitPipe /\ IdleHtml /\ IdlePy /\ IdleAux

\* what no step of main() changes
constMain == <<FORCE_REBUILD, missing, source_files, fs0, htmlVars, pyVars, auxVars>>

\* what no step outside the processing of a file changes
constPipe == <<constMain, pandoc_input_content, literate, handed, seo_reads>>

\* main: if not validate_config(): return
Validate ==
    /\ pc = "validate"
    /\ \E template_ok \in BOOLEAN :
         pc' = IF missing \cap essential_paths = {} /\ template_ok THEN "clean" ELSE "returned"
    /\ UNCHANGED <<step, idx, proc, generated_files, fs, dirs, failed, file_errors,
                   executed, used, constPipe>>

\* main: DOCS_DIR.mkdir; with --force-rebuild unlink every *.html under docs/
\* (an unlink that fails is only warned about); copy_assets; find_source_files
CleanAndDiscover ==
    /\ pc = "clean"
    /\ \E kept \in SUBSET {p \in AllPaths : fs[p] # Absent} :
         fs' = IF FORCE_REBUILD THEN [p \in AllPaths |-> IF p \in kept THEN fs[p] ELSE Absent]
               ELSE fs
    /\ dirs' = dirs \cup {DOCS_DIR}
    /\ \E assets_ok \in BOOLEAN :
         pc' = IF assets_ok /\ source_files # <<>> THEN "loop" ELSE "returned"
    /\ UNCHANGED <<step, idx, proc, generated_files, failed, file_errors, executed,
                   used, constPipe>>

\* process_file_with_page2html_logic: except Exception -> return False
FileFailed ==
    /\ failed' = failed \cup {CurFile}
    /\ file_errors' = file_errors \cup {CurFile}
    /\ idx' = idx + 1 /\ step' = "head" /\ proc' = "none"
    /\ pandoc_input_content' = <<>> /\ literate' = NoRun

\* process_file_with_page2html_logic: return True; main registers the file
FileDone ==
    /\ generated_files' = Register(CurFile)
    /\ idx' = idx + 1 /\ step' = "head" /\ proc' = "none"
    /\ pandoc_input_content' = <<>> /\ literate' = NoRun

StartProcess == proc' \in {"running", "hung"}

SkipExisting_never(out) == FALSE

\* main: if not FORCE_REBUILD and output_html_path.exists()
SkipExisting(out) == ~FORCE_REBUILD /\ fs[out] # Absent

\* main: output_html_path.parent.mkdir(parents=True, exist_ok=True) raises
\* (it cannot when the directory is already there)
LoopMkdirFails ==
    /\ InLoop /\ step = "head"
    /\ OutputHtmlPath(CurFile).dir \notin dirs
    /\ pc' = "crashed"
    /\ file_errors' = file_errors \cup {CurFile}
    /\ UNCHANGED <<step, idx, proc, generated_files, fs, dirs, failed, executed,
                   used, constPipe>>

\* main: the existing output is registered unprocessed
LoopSkipExisting ==
    /\ InLoop /\ step = "head"
    /\ SkipExisting(OutputHtmlPath(CurFile))
    /\ dirs' = dirs \cup Ancestors(OutputHtmlPath(CurFile).dir)
    /\ FileDone
    /\ UNCHANGED <<pc, fs, failed, file_errors, executed, used, handed, seo_reads, constMain>>

\* main: the file is handed to process_file_with_page2html_logic
LoopEnter ==
    /\ InLoop /\ step = "head"
    /\ ~SkipExisting(OutputHtmlPath(CurFile))
    /\ dirs' = dirs \cup Ancestors(OutputHtmlPath(CurFile).dir)
    /\ step' = "transform"
    /\ UNCHANGED <<pc, idx, proc, generated_files, fs, failed, file_errors, executed,
                   used, constPipe>>


Out == OutputHtmlPath(CurFile)
Log(stage) == executed \cup {<<CurFile, stage>>}

\* prepare_pandoc_input for markdown, scripts, notebooks and the build file:
\* the source is read and converted in-process (process_jupyter_notebook
\* catches its own read error)
TransformInProcess ==
    /\ InLoop /\ step = "transform" /\ ~IsCFile(CurFile)
    /\ executed' = Log("transform")
    /\ \/ /\ step' = "typeset"
          /\ pandoc_input_content' \in InProcessMarkup(CurFile)
          /\ UNCHANGED <<idx, proc, failed, file_errors, literate>>
       \/ /\ ~IsNotebook(CurFile)          \* the source cannot be read
          /\ FileFailed
    /\ UNCHANGED <<pc, generated_files, fs, dirs, used, handed, seo_reads, constMain>>

\* process_c_file: the source is read, then literate-c is started with Popen
TransformC ==
    /\ InLoop /\ step = "transform" /\ IsCFile(CurFile)
    /\ executed' = Log("transform")
    /\ \/ FileFailed                       \* the source cannot be read
       \/ /\ step' = "typeset"             \* Popen raises
          /\ literate' = [outcome |-> "not_started", returncode |-> 0, content |-> <<>>]
          /\ pandoc_input_content' = ProcessCFileResult(literate')
          /\ UNCHANGED <<idx, proc, failed, file_errors>>
       \/ /\ step' = "literate_wait"
          /\ StartProcess
          /\ UNCHANGED <<idx, failed, file_errors, pandoc_input_content, literate>>
    /\ UNCHANGED <<pc, generated_files, fs, dirs, used, handed, seo_reads, constMain>>

\* process_c_file: communicate() returns with an exit code and the output
LiterateExit ==
    /\ InLoop /\ step = "literate_wait" /\ proc = "running"
    /\ step' = "typeset" /\ proc' = "none"
    /\ \E rc \in {0, 1}, out \in LiterateOutputs :
         literate' = [outcome |-> "exited", returncode |-> rc, content |-> out]
    /\ pandoc_input_content' = ProcessCFileResult(literate')
    /\ executed' = IF pandoc_input_content' # PlainCBlock THEN Log("literate_markup")
                   ELSE executed
    /\ UNCHANGED <<pc, idx, generated_files, fs, dirs, failed, file_errors,
                   used, handed, seo_reads, constMain>>

CountRead(f) == [g \in DOMAIN seo_reads \cup {f} |->
                   IF g = f THEN (IF f \in DOMAIN seo_reads THEN seo_reads[f] ELSE 0) + 1
                   ELSE seo_reads[g]]

HandTo(f, content) == [g \in DOMAIN handed \cup {f} |-> IF g = f THEN content ELSE handed[g]]

\* process_file_with_page2html_logic: sanitize_pandoc_input, extract_seo_metadata,
\* then run_pandoc: subprocess.run(pandoc_cmd, input=pandoc_input) without timeout
InvokePandoc ==
    /\ InLoop /\ step = "typeset"
    /\ seo_reads' = IF SeoCommentFound(SanitizePandocInput(pandoc_input_content))
                    THEN CountRead(CurFile) ELSE seo_reads
    /\ IF "pandoc" \in missing
       THEN FileFailed /\ UNCHANGED <<executed, handed>>     \* FileNotFoundError
       ELSE /\ step' = "pandoc_wait"
            /\ StartProcess
            /\ executed' = Log("typeset")
            /\ pandoc_input_content' = SanitizePandocInput(pandoc_input_content)
            /\ handed' = HandTo(CurFile, pandoc_input_content')
            /\ literate' = NoRun                 \* process_c_file has returned
            /\ UNCHANGED <<idx, failed, file_errors>>
    /\ UNCHANGED <<pc, generated_files, fs, dirs, used, constMain>>

\* run_pandoc: the engine exits.  Non-zero: print and return "".  Zero: the
\* output file is re-read, repaired if needed and written back.
PandocExit ==
    /\ InLoop /\ step = "pandoc_wait" /\ proc = "running"
    /\ \/ \E raw \in {PandocPage, PandocFragment} :
            /\ fs' = [fs EXCEPT ![Out] = RepairShell(PandocRender(raw, pandoc_input_content))]
            /\ UNCHANGED <<executed, file_errors>>
       \/ /\ executed' = Log("engine_nonzero")
          /\ file_errors' = file_errors \cup {CurFile}
          /\ UNCHANGED fs
    /\ step' = "post" /\ proc' = "none"
    /\ UNCHANGED <<pc, idx, generated_files, dirs, failed, used, constPipe>>

\* process_file_with_page2html_logic: .py/.sh/.md/.ipynb branch, then
\* insert_javascript_in_html and return True
PostProcessPyShell ==
    /\ InLoop /\ step = "post" /\ IsPyShellBranch(CurFile)
    /\ IF fs[Out] = Absent
       THEN FileFailed /\ UNCHANGED <<fs, generated_files, executed>>   \* open() raises
       ELSE \/ FileFailed /\ UNCHANGED <<fs, generated_files, executed>> \* write fails
            \/ /\ fs' = [fs EXCEPT ![Out] = InsertJavascriptInHtml(AddRepoName(fs[Out]))]
               /\ executed' = Log("post")
               /\ FileDone
               /\ UNCHANGED <<failed, file_errors>>
    /\ UNCHANGED <<pc, dirs, used, handed, seo_reads, constMain>>

\* run_awk_post_processing: the script must exist, then awk is started
InvokeAwk ==
    /\ InLoop /\ step = "post" /\ ~IsPyShellBranch(CurFile)
    /\ IF fs[Out] = Absent \/ "decl_anchors.awk" \in missing
       THEN FileFailed /\ UNCHANGED executed
       ELSE /\ step' = "awk_wait"
            /\ StartProcess
            /\ executed' = Log("post")
            /\ UNCHANGED <<idx, failed, file_errors, pandoc_input_content, literate>>
    /\ UNCHANGED <<pc, generated_files, fs, dirs, used, handed, seo_reads, constMain>>

\* run_awk_post_processing: awk exits; non-zero raises RuntimeError.  On
\* success post_process_c_html, the write, insert_javascript_in_html, return True
AwkExit ==
    /\ InLoop /\ step = "awk_wait" /\ proc = "running"
    /\ \/ FileFailed /\ UNCHANGED <<fs, generated_files>>
       \/ /\ fs' = [fs EXCEPT ![Out] = InsertJavascriptInHtml(AddRepoName(fs[Out]))]
          /\ FileDone
          /\ UNCHANGED <<failed, file_errors>>
    /\ UNCHANGED <<pc, dirs, executed, used, handed, seo_reads, constMain>>

DirIndexPage == <<"<!DOCTYPE html>", "<html>", "<body>", "directory index", "</body>", "</html>">>

\* main: generate_directory_index for every source directory present under docs/
GenerateDirectoryIndexes ==
    /\ pc = "loop" /\ LoopDone
    /\ LET eligible == {d \in SOURCE_DIRS : DOCS_DIR \o <<d>> \in dirs}
       IN /\ \E ok \in SUBSET eligible :
               fs' = [p \in AllPaths |-> IF \E d \in ok : p = DirIndexPath(d)
                                         THEN DirIndexPage ELSE fs[p]]
          /\ used' = IF eligible # {} THEN ReadBy("dir") ELSE used
    /\ pc' = "rootindex"
    /\ UNCHANGED <<step, idx, proc, generated_files, dirs, failed, file_errors, executed,
                   constPipe>>

\* generate_index: the registry is grouped into links, pandoc renders the page,
\* then post_process_python_shell_html and insert_javascript_in_html
GenerateIndex ==
    /\ pc = "rootindex"
    /\ used' = ReadBy("root")
    /\ IF "pandoc" \in missing
       THEN pc' = "crashed" /\ UNCHANGED fs     \* FileNotFoundError leaves main
       ELSE \/ pc' = "returned" /\ UNCHANGED fs \* non-zero exit
            \/ /\ pc' = "sitemap"
               /\ fs' = [fs EXCEPT ![INDEX_PATH] = InsertJavascriptInHtml(AddRepoName(PandocPage))]
    /\ UNCHANGED <<step, idx, proc, generated_files, dirs, failed, file_errors, executed,
                   constPipe>>

\* main: generate_robots_txt, generate_sitemap
GenerateSitemap ==
    /\ pc = "sitemap"
    /\ used' = ReadBy("sitemap")
    /\ pc' = "done"
    /\ UNCHANGED <<step, idx, proc, generated_files, fs, dirs, failed, file_errors,
                   executed, constPipe>>

\* main: what the print calls after the loop write; text is the format
\* string, numbers are the counts interpolated into it
MainClosingOutput ==
    {[text |-> "Generating folder index pages...", numbers |-> <<>>],
     [text |-> "Failed to generate index for {source_dir}.", numbers |-> <<>>],
     [text |-> "Generating main index.html...", numbers |-> <<>>],
     [text |-> "Failed to generate index.html.", numbers |-> <<>>],
     [text |-> "Generating robots.txt...", numbers |-> <<>>],
     [text |-> "Generating sitemap...", numbers |-> <<>>],
     [text |-> "Documentation generation complete.", numbers |-> <<>>],
     [text |-> "Output generated in: {DOCS_DIR}", numbers |-> <<>>],
     [text |-> "Copied Basilisk JS file {src} to {dst}", numbers |-> <<>>],
     [text |-> "Warning: Basilisk JS file {src} not found", numbers |-> <<>>]}

Next ==
    \/ Validate
    \/ CleanAndDiscover
    \/ LoopMkdirFails
    \/ LoopSkipExisting
    \/ LoopEnter
    \/ TransformInProcess
    \/ TransformC
    \/ LiterateExit
    \/ InvokePandoc
    \/ PandocExit
    \/ PostProcessPyShell
    \/ InvokeAwk
    \/ AwkExit
    \/ GenerateDirectoryIndexes
    \/ GenerateIndex
    \/ GenerateSitemap

Spec == Init /\ [][Next]_vars

\* every step of main() is taken when it can be; a child process that never
\* exits enables no step
FairSpec == Spec /\ WF_vars(Next)

\* the page of a C file as the engine wrote it, before the tagger and the
\* injections: what stays under docs/ when the tagger exits non-zero
LeftoverPage == RepairShell(PandocRender(PandocPage, PlainCBlock))

\* main() started again without --force-rebuild on the docs/ an earlier run
\* has left: for each source no page, the finished page, or, for a C file,
\* the page the engine wrote before the run failed on it
InitRerun ==
    /\ pc = "validate" /\ step = "head" /\ idx = 1 /\ proc = "none"
    /\ FORCE_REBUILD = FALSE
    /\ missing = {}
    /\ \E S \in SUBSET Universe :
         /\ Cardinality(S) <= MaxFiles
         /\ source_files = SelectSeq(UniverseSorted, LAMBDA f : f \in S)
         /\ \E E \in SUBSET S, L \in SUBSET {f \in S : IsCFile(f)} :
              /\ fs = [p \in AllPaths |->
                         IF \E f \in L : p = OutputHtmlPath(f) THEN LeftoverPage
                         ELSE IF \E f \in E : p = OutputHtmlPath(f) THEN OldPage
                         ELSE Absent]
              /\ dirs = UNION {Ancestors(DOCS_DIR \o f.dir) : f \in E \cup L}
    /\ fs0 = fs
    /\ generated_files = NoRegistry
    /\ failed = {} /\ file_errors = {} /\ executed = {}
    /\ used = [s \in {} |-> NoRegistry]
    /\ pandoc_input_content = <<>> /\ literate = NoRun
    /\ handed = [f \in {} |-> <<>>] /\ seo_reads = [f \in {} |-> 0]
    /\ IdleHtml /\ IdlePy /\ IdleAux

SpecRerun == InitRerun /\ [][Next]_vars

(***************************************************************************)
(* Repeated injection into one HTML file                                   *)
(***************************************************************************)
HtmlTokens == {"<head>", "</head>", "<body>", "</body>", "text",
               CopyButtonMarker, LinkRootMarker, LinkSubMarker}

Applications == 2

InitHtml ==
    /\ html_orig \in SeqsUpTo(HtmlTokens, MaxHtmlLen)
    /\ html_content = html_orig /\ html_once = html_orig
    /\ html_count = 0
    /\ \/ html_op = "css" /\ is_root \in BOOLEAN
       \/ html_op = "js" /\ is_root = TRUE
    /\ IdlePipe /\ IdlePy /\ IdleAux

\* one call insert_css_link_in_html(html_file_path, css_path, is_root)
ApplyCss ==
    /\ html_op = "css" /\ html_count < Applications
    /\ html_content' = InsertCssLinkInHtml(html_content, is_root)
    /\ html_once' = IF html_count = 0 THEN html_content' ELSE html_once
    /\ html_count' = html_count + 1
    /\ UNCHANGED <<html_orig, html_op, is_root, pipeVars, pyVars, auxVars>>

\* one call insert_javascript_in_html(html_file_path)
ApplyJs ==
    /\ html_op = "js" /\ html_count < Applications
    /\ html_content' = InsertJavascriptInHtml(html_content)
    /\ html_once' = IF html_count = 0 THEN html_content' ELSE html_once
    /\ html_count' = html_count + 1
    /\ UNCHANGED <<html_orig, html_op, is_root, pipeVars, pyVars, auxVars>>

NextHtml ==
    \/ ApplyCss
    \/ ApplyJs

SpecHtml == InitHtml /\ [][NextHtml]_vars

(***************************************************************************)
(* process_python_file.  A line is a sequence of tokens: " " is            *)
(* whitespace, Q3 and A3 are the two triple-quote delimiters, any other    *)
(* token is text.                                                          *)
(***************************************************************************)
Q3 == "\"\"\""
A3 == "'''"
\* the fence lines: three backquotes and "python", three backquotes
FenceOpen  == <<"(fence)python">>
FenceClose == <<"(fence)">>
Blank == <<>>

PyLines == {Blank, <<" ">>, <<"x">>, <<" ", "y">>, <<Q3>>, <<" ", A3>>,
            <<Q3, "d">>, <<"e", Q3>>, <<Q3, "f", Q3>>}

\* str.strip
RECURSIVE LStrip(_)
LStrip(l) == IF l # <<>> /\ Head(l) = " " THEN LStrip(Tail(l)) ELSE l
RECURSIVE RStrip(_)
RStrip(l) == IF l # <<>> /\ l[Len(l)] = " " THEN RStrip(SubSeq(l, 1, Len(l) - 1)) ELSE l
Strip(l) == RStrip(LStrip(l))

StartsWithQuote(l) == l # <<>> /\ Head(l) \in {Q3, A3}
EndsWithQuote(l)   == l # <<>> /\ l[Len(l)] \in {Q3, A3}

\* process_python_file: line.strip().startswith('"""') or ...("'''")
IsDelimiterLine(line) == StartsWithQuote(Strip(line))

\* process_python_file: one doc_line of the clean_docstring loop
CleanDocLine(doc_line) ==
    LET a == Strip(doc_line)
        b == IF StartsWithQuote(a) THEN Tail(a) ELSE a
        c == IF EndsWithQuote(b) THEN SubSeq(b, 1, Len(b) - 1) ELSE b
    IN Strip(c)

\* process_python_file: clean_docstring built from docstring_lines
RECURSIVE CleanDocstring(_)
CleanDocstring(dl) ==
    IF dl = <<>> THEN <<>>
    ELSE IF Strip(Head(dl)) \in {<<Q3>>, <<A3>>}
         THEN CleanDocstring(Tail(dl))
         ELSE <<CleanDocLine(Head(dl))>> \o CleanDocstring(Tail(dl))

FlushCode_unclosed(pl, cb) == pl \o <<FenceOpen>> \o cb

\* process_python_file: a code block is written out between its fences
FlushCode(pl, cb) == pl \o <<FenceOpen>> \o cb \o <<FenceClose>>

InitPy ==
    /\ lines \in (SeqsUpTo(PyLines, MaxLines) \ {<<>>})
    /\ py_i = 1 /\ processed_lines = <<>>
    /\ in_code_block = FALSE /\ code_block = <<>>
    /\ in_docstring = FALSE /\ docstring_lines = <<>>
    /\ py_done = FALSE
    /\ IdlePipe /\ IdleHtml /\ IdleAux

\* process_python_file: the loop body on a delimiter line
PyDelimiterLine ==
    /\ ~py_done /\ py_i <= Len(lines) /\ IsDelimiterLine(lines[py_i])
    /\ IF in_docstring
       THEN /\ in_docstring' = FALSE
            /\ processed_lines' =
                 IF CleanDocstring(docstring_lines) # <<>>
                 THEN processed_lines \o <<Blank>> \o CleanDocstring(docstring_lines) \o <<Blank>>
                 ELSE processed_lines
            /\ docstring_lines' = <<>>
            /\ UNCHANGED <<in_code_block, code_block>>
       ELSE /\ in_docstring' = TRUE
            /\ IF in_code_block
               THEN /\ processed_lines' = FlushCode(processed_lines, code_block)
                    /\ code_block' = <<>>
                    /\ in_code_block' = FALSE
               ELSE UNCHANGED <<processed_lines, code_block, in_code_block>>
            /\ UNCHANGED docstring_lines
    /\ py_i' = py_i + 1
    /\ UNCHANGED <<lines, py_done, pipeVars, htmlVars, auxVars>>

PyDocstringLine_once ==
    /\ ~py_done /\ py_i <= Len(lines) /\ ~IsDelimiterLine(lines[py_i])
    /\ in_docstring
    /\ docstring_lines' = IF docstring_lines = <<>> THEN <<lines[py_i]>> ELSE docstring_lines
    /\ py_i' = py_i + 1
    /\ UNCHANGED <<lines, processed_lines, in_code_block, code_block, in_docstring,
                   py_done, pipeVars, htmlVars, auxVars>>

\* process_python_file: the loop body on a line inside a docstring
PyDocstringLine ==
    /\ ~py_done /\ py_i <= Len(lines) /\ ~IsDelimiterLine(lines[py_i])
    /\ in_docstring
    /\ docstring_lines' = Append(docstring_lines, lines[py_i])
    /\ py_i' = py_i + 1
    /\ UNCHANGED <<lines, processed_lines, in_code_block, code_block, in_docstring,
                   py_done, pipeVars, htmlVars, auxVars>>

PyCodeLine_dropblank ==
    /\ ~py_done /\ py_i <= Len(lines) /\ ~IsDelimiterLine(lines[py_i])
    /\ ~in_docstring
    /\ IF Strip(lines[py_i]) # <<>>
       THEN /\ in_code_block' = TRUE
            /\ code_block' = Append(code_block, lines[py_i])
            /\ UNCHANGED processed_lines
       ELSE /\ processed_lines' = IF in_code_block THEN processed_lines
                                  ELSE Append(processed_lines, lines[py_i])
            /\ UNCHANGED <<in_code_block, code_block>>
    /\ py_i' = py_i + 1
    /\ UNCHANGED <<lines, in_docstring, docstring_lines, py_done, pipeVars, htmlVars, auxVars>>

\* process_python_file: the loop body on a line outside docstrings
PyCodeLine ==
    /\ ~py_done /\ py_i <= Len(lines) /\ ~IsDelimiterLine(lines[py_i])
    /\ ~in_docstring
    /\ IF ~in_code_block /\ Strip(lines[py_i]) # <<>>
       THEN /\ in_code_block' = TRUE
            /\ code_block' = Append(code_block, lines[py_i])
            /\ UNCHANGED processed_lines
       ELSE IF in_code_block
            THEN /\ code_block' = Append(code_block, lines[py_i])
                 /\ UNCHANGED <<in_code_block, processed_lines>>
            ELSE /\ processed_lines' = Append(processed_lines, lines[py_i])
                 /\ UNCHANGED <<in_code_block, code_block>>
    /\ py_i' = py_i + 1
    /\ UNCHANGED <<lines, in_docstring, docstring_lines, py_done, pipeVars, htmlVars, auxVars>>

\* process_python_file: after the loop, what is still open is written out
PyEof ==
    /\ ~py_done /\ py_i > Len(lines)
    /\ processed_lines' =
         LET pl == IF in_code_block THEN FlushCode(processed_lines, code_block)
                   ELSE processed_lines
         IN IF in_docstring THEN pl \o <<Blank>> \o docstring_lines \o <<Blank>> ELSE pl
    /\ py_done' = TRUE
    /\ UNCHANGED <<lines, py_i, in_code_block, code_block, in_docstring, docstring_lines,
                   pipeVars, htmlVars, auxVars>>

NextPy ==
    \/ PyDelimiterLine
    \/ PyDocstringLine
    \/ PyCodeLine
    \/ PyEof

SpecPy == InitPy /\ [][NextPy]_vars

(***************************************************************************)
(* extract_seo_metadata.  A text is a sequence of characters.  The content *)
(* is given by what the regular expressions of the function find in it:    *)
(* the payload of the SEO_METADATA comment, the paragraph after the first  *)
(* heading (it starts with a letter) and the declared names.               *)
(***************************************************************************)
MaxCore == 2   \* characters of a text in front of its padding

DescLimit == 160
TruncKeep == 157

Chars == {"a", " ", "<", ">", "\""}

\* n times the letter a
Pad(n) == [i \in 1..n |-> "a"]

PadLens == {0, TruncKeep, DescLimit}

Texts == {core \o Pad(n) : core \in SeqsUpTo(Chars, MaxCore), n \in PadLens}

NoKey == <<"(no key)">>
NotAString == <<"(int)">>
NoMatch == <<"(no match)">>
KeywordsAbsent == {}

\* words of the file stem and declared names, with len()
TenNames == {"name01", "name02", "name03", "name04", "name05",
             "name06", "name07", "name08", "name09", "name10"}
WordLen(w) == CASE w = "a" -> 1 [] w = "main" -> 4 [] w = "vortex" -> 6
                [] w \in TenNames -> 6 [] OTHER -> 0

Stems == {<<"a">>, <<"vortex", "a">>}
Declared == {{}, {"main", "a"}, TenNames \cup {"a"}}

Payloads ==
    {[kind |-> "malformed", description |-> NoKey, keywords |-> KeywordsAbsent],
     [kind |-> "not_dict",  description |-> NoKey, keywords |-> KeywordsAbsent]}
    \cup [kind : {"dict"}, description : Texts \cup {NoKey, NotAString},
          keywords : {KeywordsAbsent, {"k"}}]

NoPayload == [kind |-> "none", description |-> NoKey, keywords |-> KeywordsAbsent]

Contents ==
    [embedded : {NoPayload}, paragraph : {NoMatch} \cup {<<"a">> \o t : t \in Texts},
     declared : Declared]
    \cup [embedded : Payloads, paragraph : {NoMatch, <<"a", " ", "<", "a">>},
          declared : Declared]

\* re.sub(r'<[^>]*>', '', text): from a '<' through the next '>'
RECURSIVE StripTags(_)
StripTags(text) ==
    LET opens == {i \in 1..Len(text) : text[i] = "<" /\ \E k \in (i+1)..Len(text) : text[k] = ">"}
    IN IF opens = {} THEN text
       ELSE LET i == CHOOSE o \in opens : \A p \in opens : o <= p
                k == CHOOSE c \in (i+1)..Len(text) :
                        text[c] = ">" /\ \A d \in (i+1)..(c-1) : text[d] # ">"
            IN Prefix(text, i - 1) \o StripTags(Suffix(text, k + 1))

\* re.sub(r'["\'\\\<>]', '', text)
RemoveQuotesAndBrackets(text) ==
    SelectSeq(text, LAMBDA c : c \notin {"\"", "'", "\\", "<", ">"})

\* extract_seo_metadata: the sanitization of an embedded description
SanitizeEmbedded(text) == RemoveQuotesAndBrackets(StripTags(text))

\* re.sub(r'[#`*_]', '', text)
RemoveMarkdownMarks(text) == SelectSeq(text, LAMBDA c : c \notin {"#", "*", "_"})

\* re.sub(r'\s+', ' ', text)
RECURSIVE CollapseSpaces(_)
CollapseSpaces(text) ==
    LET runs == {i \in 1..(Len(text) - 1) : text[i] = " " /\ text[i+1] = " "}
    IN IF runs = {} THEN text
       ELSE LET i == CHOOSE r \in runs : \A q \in runs : r <= q
            IN Prefix(text, i - 1) \o CollapseSpaces(Suffix(text, i + 1))

\* text[:157] + "..." when len(text) > 160
Truncate(text) ==
    IF Len(text) > DescLimit THEN SubSeq(text, 1, TruncKeep) \o <<".", ".", ".">> ELSE text

\* re.sub(r'"', '\'', text)
QuotesToApostrophes(text) == [i \in 1..Len(text) |-> IF text[i] = "\"" THEN "'" ELSE text[i]]

\* extract_seo_metadata: the description made of the first paragraph
ParagraphDescription(paragraph) ==
    Truncate(Strip(CollapseSpaces(RemoveMarkdownMarks(Strip(paragraph)))))

\* extract_seo_metadata: the final pass over the description
SafeForAttribute(text) == Truncate(QuotesToApostrophes(StripTags(text)))

\* "Documentation for <stem> in the CoMPhy Lab ..."[:160]
DefaultDescription ==
    LET default_desc == <<"D", "o", "c">>
    IN IF Len(default_desc) > DescLimit THEN SubSeq(default_desc, 1, DescLimit) ELSE default_desc

DefaultKeywords == {"fluid dynamics, CFD, Basilisk, computational physics"}

\* extract_seo_metadata: the keyword set of file name parts and declared names
DerivedKeywords(stem, declared) ==
    LET keywords == {w \in {stem[i] : i \in 1..Len(stem)} \cup declared : WordLen(w) > 3}
    IN IF keywords # {} THEN keywords ELSE DefaultKeywords

\* list(keywords)[:10]
KeywordLimit == 10

\* list(keywords)[:10]: a set of strings is listed in the order of the
\* hashes of its elements, which are salted anew in every interpreter
\* process; the slice is any KeywordLimit of the elements
KeywordCuts(keywords) ==
    IF Cardinality(keywords) <= KeywordLimit THEN {keywords}
    ELSE {cut \in SUBSET keywords : Cardinality(cut) = KeywordLimit}

EmbeddedReturned_never(payload) == FALSE

\* extract_seo_metadata: the embedded record is returned from inside the try
EmbeddedReturned(payload) ==
    /\ payload.kind = "dict"               \* json.loads gave a dict
    /\ payload.description # NotAString    \* re.sub did not raise

\* extract_seo_metadata: metadata when the heuristic part starts
MetadataAfterTry(payload) ==
    IF payload.kind = "dict" THEN [description |-> payload.description, keywords |-> payload.keywords]
    ELSE [description |-> NoKey, keywords |-> KeywordsAbsent]

InitSeo ==
    /\ seo_stem \in Stems
    /\ seo_content \in Contents
    /\ seo_metadata = [description |-> NoKey, keywords |-> KeywordsAbsent]
    /\ seo_state = "called" /\ seo_first = <<>>
    /\ IdlePipe /\ IdleHtml /\ IdlePy /\ IdleTree /\ IdleInc /\ IdleMore

restSeo == <<pipeVars, htmlVars, pyVars, treeVars, incVars, moreVars>>

\* extract_seo_metadata: the comment is found and its record returned
SeoReturnEmbedded ==
    /\ seo_state = "called"
    /\ seo_content.embedded.kind # "none"
    /\ EmbeddedReturned(seo_content.embedded)
    /\ seo_metadata' =
         [description |-> IF seo_content.embedded.description # NoKey
                          THEN SanitizeEmbedded(seo_content.embedded.description)
                          ELSE NoKey,
          keywords |-> seo_content.embedded.keywords]
    /\ seo_state' = "returned_embedded"
    /\ UNCHANGED <<seo_stem, seo_content, seo_first, restSeo>>

\* extract_seo_metadata: description and keywords are derived from the content
SeoDeriveHeuristic ==
    /\ seo_state = "called"
    /\ seo_content.embedded.kind = "none" \/ ~EmbeddedReturned(seo_content.embedded)
    /\ LET metadata == MetadataAfterTry(seo_content.embedded)
           description == IF seo_content.paragraph # NoMatch
                          THEN ParagraphDescription(seo_content.paragraph)
                          ELSE IF metadata.description # NoKey THEN metadata.description
                          ELSE DefaultDescription
       IN /\ seo_state' = IF description = NotAString THEN "raised" ELSE "returned_heuristic"
          /\ \E cut \in KeywordCuts(DerivedKeywords(seo_stem, seo_content.declared)) :
                seo_metadata' = IF description = NotAString THEN seo_metadata
                                ELSE [description |-> SafeForAttribute(description),
                                      keywords |-> cut]
    /\ UNCHANGED <<seo_stem, seo_content, seo_first, restSeo>>

\* the pipeline is run once more and calls extract_seo_metadata with the
\* same file path and the same content
SeoCalledAgain ==
    /\ seo_state \in {"returned_embedded", "returned_heuristic"}
    /\ seo_first = <<>>
    /\ seo_first' = <<seo_metadata>>
    /\ seo_metadata' = [description |-> NoKey, keywords |-> KeywordsAbsent]
    /\ seo_state' = "called"
    /\ UNCHANGED <<seo_stem, seo_content, restSeo>>

NextSeo ==
    \/ SeoReturnEmbedded
    \/ SeoDeriveHeuristic
    \/ SeoCalledAgain

SpecSeo == InitSeo /\ [][NextSeo]_vars

(***************************************************************************)
(* convert_directory_tree_to_html.  A line of the tree block is a sequence *)
(* of tokens: " " is one space, "\t" one tab, "/" the slash, anything else *)
(* a run of other characters.                                              *)
(***************************************************************************)
MaxTreeLines == 3   \* lines of the tree block

Spaces(n) == [i \in 1..n |-> " "]

LeadingSpaces == {0, 2, 3, 6}

TreeBodies == {<<"src", "/">>,
               <<"f.py">>,
               <<"src", "/", " ", "-", " ", "desc">>,
               <<"file.py", " ", "-", " ", "desc2">>,
               <<"f.py", "\t", "desc">>}

TreeLines == {Spaces(n) \o body : n \in LeadingSpaces, body \in TreeBodies}

\* str.count('   '): occurrences of three spaces, counted without overlap
RECURSIVE CountTriple(_)
CountTriple(line) ==
    LET at == {i \in 1..(Len(line) - 2) : line[i] = " " /\ line[i+1] = " " /\ line[i+2] = " "}
    IN IF at = {} THEN 0
       ELSE LET i == CHOOSE a \in at : \A b \in at : a <= b
            IN 1 + CountTriple(Suffix(line, i + 3))

\* convert_directory_tree_to_html: indent_level (the elif needs four spaces
\* in a line without three spaces and never applies)
IndentLevel(line) == CountTriple(line)

\* line.replace(' ', ''), then strip()
CleanLine(line) ==
    LET clean_line == SelectSeq(line, LAMBDA c : c # " ")
        first == {i \in 1..Len(clean_line) : clean_line[i] # "\t"}
    IN IF first = {} THEN <<>>
       ELSE SubSeq(clean_line, CHOOSE a \in first : \A b \in first : a <= b,
                               CHOOSE a \in first : \A b \in first : a >= b)

\* clean_line.split(None, 1): parts[0]
PathOf(clean_line) ==
    IF Has(clean_line, "\t") THEN Prefix(clean_line, Find(clean_line, "\t") - 1) ELSE clean_line

\* clean_line.split(None, 1): parts[1], or '' when there is one part
DescriptionOf(clean_line) ==
    IF Has(clean_line, "\t")
    THEN LET rest == Suffix(clean_line, Find(clean_line, "\t"))
             text == {i \in 1..Len(rest) : rest[i] # "\t"}
         IN Suffix(rest, CHOOSE a \in text : \A b \in text : a <= b)
    ELSE <<>>

\* path.endswith('/')
IsDir(path) == path # <<>> /\ path[Len(path)] = "/"

\* path.rstrip('/')
RECURSIVE RStripSlash(_)
RStripSlash(path) ==
    IF path # <<>> /\ path[Len(path)] = "/" THEN RStripSlash(Prefix(path, Len(path) - 1)) ELSE path

\* file_path.lstrip('/')
RECURSIVE LStripSlash(_)
LStripSlash(path) == IF path # <<>> /\ Head(path) = "/" THEN LStripSlash(Tail(path)) ELSE path

NoLink == <<"(no link)">>

\* convert_directory_tree_to_html: the stack after the indent is compared
\* with that of the line before
AdjustStack(stack, prev, indent_level) ==
    IF indent_level > prev
    THEN IF stack # <<>> /\ prev >= 0 THEN Append(stack, stack[Len(stack)]) ELSE stack
    ELSE IF indent_level < prev
         THEN Prefix(stack, IF Len(stack) > prev - indent_level
                            THEN Len(stack) - (prev - indent_level) ELSE 0)
         ELSE stack

\* convert_directory_tree_to_html: the stack after a directory line
StackAfterDir(stack, indent_level, dir_name) ==
    IF Len(stack) <= indent_level THEN Append(stack, dir_name)
    ELSE [stack EXCEPT ![indent_level + 1] = dir_name]

\* convert_directory_tree_to_html: path_stack[indent_level-1] raises IndexError
ParentIndexOutOfRange(stack, indent_level) ==
    indent_level > 0 /\ stack # <<>> /\ indent_level > Len(stack)

\* convert_directory_tree_to_html: parent_path
ParentPath(stack, indent_level) ==
    IF indent_level > 0 /\ stack # <<>> THEN stack[indent_level] ELSE <<>>

\* convert_directory_tree_to_html: "{file_path}.html"
FileTarget(parent_path, path) ==
    LStripSlash(IF parent_path # <<>> THEN parent_path \o <<"/">> \o path ELSE path) \o <<".html">>

TreeLine == tree_lines[tree_i]
TreeIndent == IndentLevel(TreeLine)
TreePath == PathOf(CleanLine(TreeLine))
TreeItem(target) == [indent |-> TreeIndent, label |-> TreePath, target |-> target,
                     description |-> DescriptionOf(CleanLine(TreeLine))]

InitTree ==
    /\ tree_lines \in {t \in SeqsUpTo(TreeLines, MaxTreeLines) : Len(t) >= 2}
    /\ tree_i = 1 /\ path_stack = <<>> /\ prev_indent = -1
    /\ html_structure = <<>> /\ tree_state = "parsing"
    /\ IdlePipe /\ IdleHtml /\ IdlePy /\ IdleSeo /\ IdleInc /\ IdleMore

restTree == <<pipeVars, htmlVars, pyVars, seoVars, incVars, moreVars>>

\* convert_directory_tree_to_html: a line whose path ends with a slash
TreeDirLine ==
    /\ tree_state = "parsing" /\ tree_i <= Len(tree_lines)
    /\ IsDir(TreePath)
    /\ LET dir_name == RStripSlash(TreePath)
       IN /\ html_structure' = Append(html_structure,
                TreeItem(IF dir_name = <<"basilisk", "/", "src">> THEN NoLink ELSE dir_name))
          /\ path_stack' = StackAfterDir(AdjustStack(path_stack, prev_indent, TreeIndent),
                                         TreeIndent, dir_name)
    /\ prev_indent' = TreeIndent /\ tree_i' = tree_i + 1
    /\ UNCHANGED <<tree_lines, tree_state, restTree>>

\* convert_directory_tree_to_html: any other line is an entry for a file
TreeFileLine ==
    /\ tree_state = "parsing" /\ tree_i <= Len(tree_lines)
    /\ ~IsDir(TreePath)
    /\ path_stack' = AdjustStack(path_stack, prev_indent, TreeIndent)
    /\ IF ParentIndexOutOfRange(path_stack', TreeIndent)
       THEN /\ tree_state' = "raised"
            /\ UNCHANGED <<html_structure, prev_indent, tree_i>>
       ELSE /\ html_structure' = Append(html_structure,
                TreeItem(FileTarget(ParentPath(path_stack', TreeIndent), TreePath)))
            /\ prev_indent' = TreeIndent /\ tree_i' = tree_i + 1
            /\ UNCHANGED tree_state
    /\ UNCHANGED <<tree_lines, restTree>>

\* convert_directory_tree_to_html: the block is replaced by the list
TreeReturn ==
    /\ tree_state = "parsing" /\ tree_i > Len(tree_lines)
    /\ tree_state' = "returned"
    /\ UNCHANGED <<tree_lines, tree_i, path_stack, prev_indent, html_structure, restTree>>

NextTree ==
    \/ TreeDirLine
    \/ TreeFileLine
    \/ TreeReturn

SpecTree == InitTree /\ [][NextTree]_vars

(***************************************************************************)
(* post_process_c_html: create_include_link.  Paths are relative to the    *)
(* repository root; a link is the sequence of its directory segments and   *)
(* the name of the file it ends with.                                      *)
(***************************************************************************)
MaxIncludes == 2   \* #include lines in the page of one source file

x_h == <<"x", ".", "h">>
y_h == <<"y", ".", "h">>

\* the names in #include "...": plain, or with a directory in front
IncludeNames == {[dir |-> <<>>, name |-> x_h], [dir |-> <<>>, name |-> y_h],
                 [dir |-> <<"grid">>, name |-> x_h]}

\* compiled-language sources at the root, in a source directory, and nested
CSources == {[dir |-> <<>>, name |-> <<"a", ".", "c">>],
             src_local_a_c,
             [dir |-> <<"simulationCases">>, name |-> <<"b", ".", "c">>],
             [dir |-> <<"simulationCases", "sub">>, name |-> <<"b", ".", "c">>]}

\* length of the longest common prefix of two directory paths
RECURSIVE CommonLen(_, _)
CommonLen(a, b) ==
    IF a # <<>> /\ b # <<>> /\ Head(a) = Head(b) THEN 1 + CommonLen(Tail(a), Tail(b)) ELSE 0

\* os.path.relpath(target, start): the directory segments of the result
RelPath(target_dir, start) ==
    LET c == CommonLen(target_dir, start)
    IN [i \in 1..(Len(start) - c) |-> ".."] \o Suffix(target_dir, c + 1)

\* link_url.replace('/docs/', '/'): a docs segment with a segment in front
\* of it is dropped (the file name always follows)
DropDocs(segments) ==
    LET keep == {i \in 1..Len(segments) : ~(i > 1 /\ segments[i] = "docs")}
    IN IF keep = DOMAIN segments THEN segments
       ELSE LET i == CHOOSE d \in DOMAIN segments \ keep : TRUE
            IN Prefix(segments, i - 1) \o Suffix(segments, i + 1)

\* how a browser resolves the segments of a relative link against a directory
RECURSIVE Resolve(_, _)
Resolve(base, segments) ==
    IF segments = <<>> THEN base
    ELSE IF Head(segments) = ".."
         THEN Resolve(IF base = <<>> THEN base ELSE Prefix(base, Len(base) - 1), Tail(segments))
         ELSE Resolve(Append(base, Head(segments)), Tail(segments))

\* create_include_link: (repo_root / 'src-local' / check_filename).is_file()
LocalFileExists(filename, local) == filename.name \in local

\* create_include_link: target_html_path
TargetHtmlPath(filename) == OutputHtmlPath([dir |-> <<"src-local">>, name |-> filename.name])

\* create_include_link: the link to the local page, relative to
\* file_path.parent, the directory of the source file
LocalLink(file, filename) ==
    [kind |-> "relative",
     segments |-> DropDocs(RelPath(TargetHtmlPath(filename).dir, file.dir)),
     name |-> TargetHtmlPath(filename).name]

\* create_include_link: http://basilisk.fr/src/{filename}
ExternalLink(filename) ==
    [kind |-> "external", segments |-> <<"http://basilisk.fr/src">> \o filename.dir,
     name |-> filename.name]

IncFilename == inc_includes[inc_i]

InitInc ==
    /\ inc_file \in CSources
    /\ inc_local \in SUBSET {x_h, y_h}
    /\ inc_includes \in (SeqsUpTo(IncludeNames, MaxIncludes) \ {<<>>})
    /\ inc_i = 1 /\ inc_links = <<>> /\ inc_state = "rewriting"
    /\ IdlePipe /\ IdleHtml /\ IdlePy /\ IdleSeo /\ IdleTree /\ IdleMore

restInc == <<pipeVars, htmlVars, pyVars, seoVars, treeVars, moreVars>>

\* create_include_link for a name found in src-local
IncludeLocal ==
    /\ inc_state = "rewriting" /\ inc_i <= Len(inc_includes)
    /\ LocalFileExists(IncFilename, inc_local)
    /\ inc_links' = Append(inc_links, LocalLink(inc_file, IncFilename))
    /\ inc_i' = inc_i + 1
    /\ UNCHANGED <<inc_file, inc_local, inc_includes, inc_state, restInc>>

\* create_include_link for any other name
IncludeExternal ==
    /\ inc_state = "rewriting" /\ inc_i <= Len(inc_includes)
    /\ ~LocalFileExists(IncFilename, inc_local)
    /\ inc_links' = Append(inc_links, ExternalLink(IncFilename))
    /\ inc_i' = inc_i + 1
    /\ UNCHANGED <<inc_file, inc_local, inc_includes, inc_state, restInc>>

\* post_process_c_html: re.sub has replaced every match
IncludesDone ==
    /\ inc_state = "rewriting" /\ inc_i > Len(inc_includes)
    /\ inc_state' = "returned"
    /\ UNCHANGED <<inc_file, inc_local, inc_includes, inc_i, inc_links, restInc>>

NextInc ==
    \/ IncludeLocal
    \/ IncludeExternal
    \/ IncludesDone

SpecInc == InitInc /\ [][NextInc]_vars

(***************************************************************************)
(* post_process_python_shell_html: fix_doc_links.  The page is the         *)
(* sequence of its anchors; an anchor is the sequence of its attributes    *)
(* and the kind of its content; an attribute value is a sequence of        *)
(* tokens.                                                                 *)
(***************************************************************************)
MaxAnchors == 1   \* anchors of the page

\* href values: local sources, a local text file, a page, a fragment, an
\* absolute URL, and a local source whose name begins with the letters http
Hrefs == {<<"a", ".c">>, <<"a", ".py">>, <<"a", ".txt">>, <<"a", ".c", ".html">>,
          <<"#", "a", ".c">>, <<"http", "://e/", "a", ".c">>, <<"http", "d", ".c">>}

ClassAttr == [name |-> "class", value |-> <<"k">>]
DataHrefAttr == [name |-> "data-href", value |-> <<"b", ".h">>]
HrefAttr(v) == [name |-> "href", value |-> v]

\* an anchor has one href, possibly an attribute before it and one after it;
\* its content is plain text, holds a tag, or is empty
Anchors == {[attrs |-> before \o <<HrefAttr(v)>> \o after, inner |-> inner] :
                before \in {<<>>, <<ClassAttr>>, <<DataHrefAttr>>},
                v \in Hrefs,
                after \in {<<>>, <<ClassAttr>>},
                inner \in {"text", "markup", "empty"}}

\* the text href="..." occurs in the attribute
HrefLike(attr) == attr.name \in {"href", "data-href"}

\* r'<a[^>]+href="[^"]+">[^<]+</a>': the opening tag ends with href="...",
\* and the content is one or more characters other than <
LinkPatternMatches(a) ==
    /\ HrefLike(a.attrs[Len(a.attrs)])
    /\ a.inner = "text"

\* fix_doc_links: href.startswith('http') or href.startswith('https')
StartsWithHttp(href) == Head(href) = "http"

\* fix_doc_links: re.search(r'\.(c|h|py|sh|md)$', href)
SourceExtension(href) == href[Len(href)] \in {".c", ".h", ".py", ".sh", ".md"}

\* fix_doc_links: the href it reads is the first href="..." of the tag
FirstHref(a) ==
    a.attrs[CHOOSE i \in 1..Len(a.attrs) :
                HrefLike(a.attrs[i]) /\ \A j \in 1..(i - 1) : ~HrefLike(a.attrs[j])].value

\* fix_doc_links: the tag it returns for a match
fix_doc_links(a) ==
    LET href == FirstHref(a)
    IN IF StartsWithHttp(href) \/ Head(href) = "#" \/ href[Len(href)] = ".html"
       THEN a
       ELSE IF SourceExtension(href)
            THEN [a EXCEPT !.attrs = [i \in 1..Len(a.attrs) |->
                                        IF HrefLike(a.attrs[i])
                                        THEN [a.attrs[i] EXCEPT !.value = Append(href, ".html")]
                                        ELSE a.attrs[i]]]
            ELSE a

InitLinks ==
    /\ link_html \in (SeqsUpTo(Anchors, MaxAnchors) \ {<<>>})
    /\ link_i = 1 /\ link_out = <<>> /\ link_state = "substituting"
    /\ IdleOld /\ IdlePrefix /\ IdleNotebook /\ IdleFind /\ IdleFix

restLinks == <<oldVars, prefVars, nbVars, findVars, fixVars>>

\* re.sub: the next anchor matches the pattern and fix_doc_links replaces it
LinkMatched ==
    /\ link_state = "substituting" /\ link_i <= Len(link_html)
    /\ LinkPatternMatches(link_html[link_i])
    /\ link_out' = Append(link_out, fix_doc_links(link_html[link_i]))
    /\ link_i' = link_i + 1
    /\ UNCHANGED <<link_html, link_state, restLinks>>

\* re.sub: the next anchor does not match and stays as it is
LinkNotMatched ==
    /\ link_state = "substituting" /\ link_i <= Len(link_html)
    /\ ~LinkPatternMatches(link_html[link_i])
    /\ link_out' = Append(link_out, link_html[link_i])
    /\ link_i' = link_i + 1
    /\ UNCHANGED <<link_html, link_state, restLinks>>

\* post_process_python_shell_html returns
LinksDone ==
    /\ link_state = "substituting" /\ link_i > Len(link_html)
    /\ link_state' = "returned"
    /\ UNCHANGED <<link_html, link_i, link_out, restLinks>>

NextLinks ==
    \/ LinkMatched
    \/ LinkNotMatched
    \/ LinksDone

SpecLinks == InitLinks /\ [][NextLinks]_vars

(***************************************************************************)
(* calculate_asset_prefix.  A path is the sequence of its segments, the    *)
(* file name last; the prefix is the sequence of the segments joined by /. *)
(***************************************************************************)
MaxDepth == 4   \* directories of the path of the page

\* PurePath.relative_to: the segments below the base, or the ValueError
NotRelative == <<"(ValueError)">>
RelativeTo(path, base) ==
    IF Len(path) >= Len(base) /\ Prefix(path, Len(base)) = base
    THEN Suffix(path, Len(base) + 1)
    ELSE NotRelative

\* len(PurePath.parents): one parent for each segment, the last being '.'
ParentsCount(rel) == Len(rel)

\* calculate_asset_prefix: depth, computed without the - 1
AssetDepth_parents(path, base) == ParentsCount(RelativeTo(path, base))

\* calculate_asset_prefix: depth
AssetDepth(path, base) == ParentsCount(RelativeTo(path, base)) - 1

\* calculate_asset_prefix: the value of the return statement that uses depth
PrefixOfDepth(depth) == IF depth <= 0 THEN <<".">> ELSE [i \in 1..depth |-> ".."]

InitPrefix ==
    /\ docs_dir = <<"docs">>
    /\ output_path \in {Append(d, n) : d \in SeqsUpTo({"docs", "a", "b"}, MaxDepth),
                                       n \in {"index.html", "f.html"}}
    /\ asset_path_prefix = <<>> /\ prefix_state = "called"
    /\ IdleOld /\ IdleLinks /\ IdleNotebook /\ IdleFind /\ IdleFix

restPrefix == <<oldVars, linkVars, nbVars, findVars, fixVars>>

\* if output_path.name == "index.html" and output_path.parent == docs_dir
PrefixIndexAtRoot ==
    /\ prefix_state = "called"
    /\ output_path = Append(docs_dir, "index.html")
    /\ asset_path_prefix' = <<".">>
    /\ prefix_state' = "returned"
    /\ UNCHANGED <<output_path, docs_dir, restPrefix>>

\* depth = ...; return "." if depth <= 0 else "/".join([".."] * depth)
PrefixFromDepth ==
    /\ prefix_state = "called"
    /\ output_path # Append(docs_dir, "index.html")
    /\ RelativeTo(output_path, docs_dir) # NotRelative
    /\ asset_path_prefix' = PrefixOfDepth(AssetDepth(output_path, docs_dir))
    /\ prefix_state' = "returned"
    /\ UNCHANGED <<output_path, docs_dir, restPrefix>>

\* except ValueError: return "."
PrefixValueError ==
    /\ prefix_state = "called"
    /\ output_path # Append(docs_dir, "index.html")
    /\ RelativeTo(output_path, docs_dir) = NotRelative
    /\ asset_path_prefix' = <<".">>
    /\ prefix_state' = "returned"
    /\ UNCHANGED <<output_path, docs_dir, restPrefix>>

NextPrefix ==
    \/ PrefixIndexAtRoot
    \/ PrefixFromDepth
    \/ PrefixValueError

SpecPrefix == InitPrefix /\ [][NextPrefix]_vars

(***************************************************************************)
(* process_jupyter_notebook: the metadata.  The source of a cell is the    *)
(* sequence of its lines: "# T" is a level-one heading with the text T,    *)
(* "- a" is a list item with the text a, "" is an empty line, p and q are  *)
(* lines of plain text.                                                    *)
(***************************************************************************)
MaxCellLines == 4   \* lines of the markdown cell

CellLines == {"# T", "p", "q", "- a", "- b", "- c", "- d", ""}

\* sources as markdown is written: no empty line first or last, no two
\* empty lines in a row
CellSources == {s \in SeqsUpTo(CellLines, MaxCellLines) :
                    /\ s # <<>> /\ s[1] # "" /\ s[Len(s)] # ""
                    /\ \A i \in 1..(Len(s) - 1) : ~(s[i] = "" /\ s[i + 1] = "")}

CodeCell == [cell_type |-> "code", source |-> <<"p">>]
MarkdownCell(s) == [cell_type |-> "markdown", source |-> s]

\* the cells in front of the cell under study: none, a code cell, or a
\* markdown cell without heading
CellsInFront == {<<>>, <<CodeCell>>, <<MarkdownCell(<<"p", "", "- d">>)>>}

NotebookFilename == "n.ipynb"
DefaultNotebookDescription == <<"This notebook provides visualization and analysis related to n.">>
DefaultNotebookFeatures == <<"Visualization of data and results", "Analysis of simulation outputs",
                             "Interactive exploration of parameters">>

\* r'^#\s+(.+)$' with re.MULTILINE: index of the first heading line, 0 if none
TitleMatch(source) == Find(source, "# T")

\* r'^#\s+.+\n\n(.+?)(?=\n\n|\Z)' with re.DOTALL: the greedy .+ runs over
\* lines, so the two newlines matched are the last empty line after the
\* heading; 0 if there is none
DescMatch(source) ==
    LET h == TitleMatch(source)
        blank == {i \in (h + 1)..Len(source) : source[i] = ""}
    IN IF h = 0 \/ blank = {} THEN 0
       ELSE CHOOSE b \in blank : \A c \in blank : c <= b

\* r'^\s*[\*\-\+]\s+(.+)$' with re.MULTILINE, re.findall: the list items
IsItem(line) == line \in {"- a", "- b", "- c", "- d"}
ItemText(line) == CASE line = "- a" -> "a" [] line = "- b" -> "b"
                    [] line = "- c" -> "c" [] line = "- d" -> "d"
RECURSIVE FeaturesMatch(_)
FeaturesMatch(source) ==
    IF source = <<>> THEN <<>>
    ELSE IF IsItem(Head(source)) THEN <<ItemText(Head(source))>> \o FeaturesMatch(Tail(source))
    ELSE FeaturesMatch(Tail(source))

\* features_match[:3]
FirstThree(s) == Prefix(s, IF Len(s) < 3 THEN Len(s) ELSE 3)

InitNotebook ==
    /\ nb_cells \in {front \o <<MarkdownCell(s)>> : front \in CellsInFront, s \in CellSources}
    /\ nb_i = 1
    /\ notebook_title = NotebookFilename
    /\ notebook_description = <<>>
    /\ notebook_features = <<>>
    /\ nb_state = "scanning"
    /\ IdleOld /\ IdleLinks /\ IdlePrefix /\ IdleFind /\ IdleFix

restNotebook == <<oldVars, linkVars, prefVars, findVars, fixVars>>

\* for cell in cells: not a markdown cell, or a markdown cell without
\* heading: the loop goes on
CellPassed ==
    /\ nb_state = "scanning" /\ nb_i <= Len(nb_cells)
    /\ \/ nb_cells[nb_i].cell_type # "markdown"
       \/ TitleMatch(nb_cells[nb_i].source) = 0
    /\ nb_i' = nb_i + 1
    /\ UNCHANGED <<nb_cells, notebook_title, notebook_description, notebook_features,
                   nb_state, restNotebook>>

\* a markdown cell with a heading: title, description, features, break
CellWithTitle ==
    /\ nb_state = "scanning" /\ nb_i <= Len(nb_cells)
    /\ nb_cells[nb_i].cell_type = "markdown"
    /\ LET source == nb_cells[nb_i].source
           b == DescMatch(source)
       IN /\ TitleMatch(source) # 0
          /\ notebook_title' = "T"
          /\ notebook_description' = IF b # 0 THEN Suffix(source, b + 1) ELSE <<>>
          /\ notebook_features' = IF b # 0 THEN FirstThree(FeaturesMatch(source)) ELSE <<>>
    /\ nb_state' = "scanned"
    /\ UNCHANGED <<nb_cells, nb_i, restNotebook>>

\* the loop ends without a heading found
CellsExhausted ==
    /\ nb_state = "scanning" /\ nb_i > Len(nb_cells)
    /\ nb_state' = "scanned"
    /\ UNCHANGED <<nb_cells, nb_i, notebook_title, notebook_description, notebook_features,
                   restNotebook>>

\* if not notebook_description: ...; if not notebook_features: ...
NotebookDefaults ==
    /\ nb_state = "scanned"
    /\ notebook_description' = IF notebook_description = <<>> THEN DefaultNotebookDescription
                               ELSE notebook_description
    /\ notebook_features' = IF notebook_features = <<>> THEN DefaultNotebookFeatures
                            ELSE notebook_features
    /\ nb_state' = "returned"
    /\ UNCHANGED <<nb_cells, nb_i, notebook_title, restNotebook>>

NextNotebook ==
    \/ CellPassed
    \/ CellWithTitle
    \/ CellsExhausted
    \/ NotebookDefaults

SpecNotebook == InitNotebook /\ [][NextNotebook]_vars

(***************************************************************************)
(* find_source_files.  A file is the sequence of the parts of its path     *)
(* below the repository root, the file name last.                          *)
(***************************************************************************)
MaxRepoFiles == 2   \* files in the repository

source_dirs == <<"src-local", "simulationCases", "postProcess">>

valid_exts == {".c", ".h", ".py", ".sh", ".ipynb"}
valid_names == {"Makefile"}

FileNames == {"Makefile", "a.c", "a.dat", "a.h", "a.ipynb", "a.py", "a.sh", "a.txt"}

\* the root, two source directories, a directory below one, and a directory
\* that is not a source directory
RepoDirs == {<<>>, <<"src-local">>, <<"src-local", "sub">>, <<"postProcess">>, <<"other">>}

RepoUniverse == {Append(d, n) : d \in RepoDirs, n \in FileNames}

\* PurePath.name and PurePath.suffix
NameOf(f) == f[Len(f)]
SuffixOf(f) ==
    CASE NameOf(f) = "a.c" -> ".c" [] NameOf(f) = "a.dat" -> ".dat" [] NameOf(f) = "a.h" -> ".h"
      [] NameOf(f) = "a.ipynb" -> ".ipynb" [] NameOf(f) = "a.py" -> ".py"
      [] NameOf(f) = "a.sh" -> ".sh" [] NameOf(f) = "a.txt" -> ".txt"
      [] OTHER -> ""

\* the test both loops apply to a file
Accepted(f) ==
    \/ NameOf(f) \in valid_names
    \/ SuffixOf(f) \in valid_exts /\ SuffixOf(f) # ".dat"

\* src_path.rglob('*'): every file below the directory, at any depth
RGlob(dir_name, tree) == {f \in tree : Len(f) >= 2 /\ f[1] = dir_name}

\* a listing of the root that descends into its directories
IterDir_recursive(tree) == tree

\* root_dir.iterdir(): the files directly in the directory
IterDir(tree) == {f \in tree : Len(f) = 1}

\* the order of the parts as strings
PartOrder == <<"Makefile", "a.c", "a.dat", "a.h", "a.ipynb", "a.py", "a.sh", "a.txt",
               "other", "postProcess", "src-local", "sub">>
PartRank(t) == CHOOSE i \in 1..Len(PartOrder) : PartOrder[i] = t

\* the order of paths: that of their sequences of parts
RECURSIVE PathLess(_, _)
PathLess(a, b) ==
    IF a = <<>> THEN b # <<>>
    ELSE IF b = <<>> THEN FALSE
    ELSE IF Head(a) = Head(b) THEN PathLess(Tail(a), Tail(b))
    ELSE PartRank(Head(a)) < PartRank(Head(b))

\* sorted(files)
RECURSIVE SortedPaths(_)
SortedPaths(S) ==
    IF S = {} THEN <<>>
    ELSE LET least == CHOOSE f \in S : \A g \in S \ {f} : PathLess(f, g)
         IN <<least>> \o SortedPaths(S \ {least})

\* the subsets of S with at most n elements
RECURSIVE SubsetsUpTo(_, _)
SubsetsUpTo(S, n) == IF n = 0 THEN {{}}
                     ELSE LET smaller == SubsetsUpTo(S, n - 1)
                          IN smaller \cup {T \cup {x} : T \in smaller, x \in S}

InitFind ==
    /\ repo_files \in SubsetsUpTo(RepoUniverse, MaxRepoFiles)
    /\ find_i = 1 /\ files = {} /\ find_result = <<>> /\ find_state = "scanning"
    /\ IdleOld /\ IdleLinks /\ IdlePrefix /\ IdleNotebook /\ IdleFix

restFind == <<oldVars, linkVars, prefVars, nbVars, fixVars>>

\* for dir_name in source_dirs: the directory exists
ScanSourceDir ==
    /\ find_state = "scanning" /\ find_i <= Len(source_dirs)
    /\ RGlob(source_dirs[find_i], repo_files) # {}
    /\ files' = files \cup {f \in RGlob(source_dirs[find_i], repo_files) : Accepted(f)}
    /\ find_i' = find_i + 1
    /\ UNCHANGED <<repo_files, find_result, find_state, restFind>>

\* for dir_name in source_dirs: src_path.is_dir() is false
SkipSourceDir ==
    /\ find_state = "scanning" /\ find_i <= Len(source_dirs)
    /\ RGlob(source_dirs[find_i], repo_files) = {}
    /\ find_i' = find_i + 1
    /\ UNCHANGED <<repo_files, files, find_result, find_state, restFind>>

\* for f in root_dir.iterdir(): ...; return sorted(files)
ScanRootAndReturn ==
    /\ find_state = "scanning" /\ find_i > Len(source_dirs)
    /\ LET found == files \cup {f \in IterDir(repo_files) : Accepted(f)}
       IN /\ files' = found
          /\ find_result' = SortedPaths(found)
    /\ find_state' = "returned"
    /\ UNCHANGED <<repo_files, find_i, restFind>>

NextFind ==
    \/ ScanSourceDir
    \/ SkipSourceDir
    \/ ScanRootAndReturn

SpecFind == InitFind /\ [][NextFind]_vars

(***************************************************************************)
(* fix_empty_anchors.py: fix_html_file.  The content of the file is a      *)
(* sequence of pieces: a character of text, or a whole anchor element.     *)
(***************************************************************************)
MaxPieces == 3   \* pieces of the file

\* <a id="x"></a>, <a id="section-one" href="#"></a>, <a id="x">t</a>, p
ShortEmptyAnchor == "<a id=\"x\"></a>"
LongEmptyAnchor == "<a id=\"section-one\" href=\"#\"></a>"
FilledAnchor == "<a id=\"x\">t</a>"
Pieces == {ShortEmptyAnchor, LongEmptyAnchor, FilledAnchor, "p"}

\* len() of a piece
PieceLen(piece) == CASE piece = ShortEmptyAnchor -> 14 [] piece = LongEmptyAnchor -> 33
                     [] piece = FilledAnchor -> 15 [] piece = "p" -> 1

RECURSIVE ContentLen(_)
ContentLen(content) == IF content = <<>> THEN 0
                       ELSE PieceLen(Head(content)) + ContentLen(Tail(content))

\* EMPTY_ANCHOR_PATTERNS: an anchor with only an id, the href "#" or both,
\* and nothing but whitespace inside
MatchesEmptyAnchorPattern(piece) == piece \in {ShortEmptyAnchor, LongEmptyAnchor}

\* apply_empty_anchor_cleanup: re.sub(pattern, '', result) for every pattern
apply_empty_anchor_cleanup(content) ==
    SelectSeq(content, LAMBDA piece : ~MatchesEmptyAnchorPattern(piece))

\* fix_html_file: the divisor of chars_removed
ApproximateAnchorSize == 20

\* fix_html_file: replacements = chars_removed // 20
Replacements(content) ==
    (ContentLen(content) - ContentLen(apply_empty_anchor_cleanup(content)))
        \div ApproximateAnchorSize

InitFix ==
    /\ html_file \in SeqsUpTo(Pieces, MaxPieces)
    /\ html_file0 = html_file
    /\ dry_run \in BOOLEAN
    /\ replacements = 0 /\ fix_state = "called"
    /\ IdleOld /\ IdleLinks /\ IdlePrefix /\ IdleNotebook /\ IdleFind

restFix == <<oldVars, linkVars, prefVars, nbVars, findVars>>

\* if replacements > 0: ... else: the file is written
FixWrite ==
    /\ fix_state = "called"
    /\ Replacements(html_file) > 0 /\ ~dry_run
    /\ html_file' = apply_empty_anchor_cleanup(html_file)
    /\ replacements' = Replacements(html_file)
    /\ fix_state' = "returned"
    /\ UNCHANGED <<html_file0, dry_run, restFix>>

\* if replacements > 0: if dry_run: only the message is printed
FixDryRun ==
    /\ fix_state = "called"
    /\ Replacements(html_file) > 0 /\ dry_run
    /\ replacements' = Replacements(html_file)
    /\ fix_state' = "returned"
    /\ UNCHANGED <<html_file, html_file0, dry_run, restFix>>

\* replacements is 0: nothing is written
FixNothing ==
    /\ fix_state = "called"
    /\ Replacements(html_file) = 0
    /\ replacements' = 0
    /\ fix_state' = "returned"
    /\ UNCHANGED <<html_file, html_file0, dry_run, restFix>>

\* except Exception: the file cannot be opened for reading; 0 is returned
FixReadFails ==
    /\ fix_state = "called"
    /\ replacements' = 0
    /\ fix_state' = "failed"
    /\ UNCHANGED <<html_file, html_file0, dry_run, restFix>>

NextFix ==
    \/ FixWrite
    \/ FixDryRun
    \/ FixNothing
    \/ FixReadFails

SpecFix == InitFix /\ [][NextFix]_vars

(***************************************************************************)
(* Properties of main()                                                    *)
(***************************************************************************)
Finished(f) == \E i \in 1..Len(source_files) : source_files[i] = f /\ i < idx
HasOutcome(f) == f \in DOMAIN generated_files \/ f \in failed
AssemblyStarted == pc \in {"rootindex", "sitemap", "done"} \/ DOMAIN used # {}
FileStages == {"transform", "typeset", "post"}

\* C1: a failure while a file is handled in the per-file loop never ends the
\* run: when the run has ended, every file that met a failure is marked failed
\* and is not in the registry, every file of the list has been handled, and
\* the root index was generated.
C1_PerFileFailureNeverEndsRun ==
    (pc \in Terminal /\ file_errors # {}) =>
        /\ \A f \in file_errors : f \in failed /\ f \notin DOMAIN generated_files
        /\ \A f \in Files : Finished(f)
        /\ "root" \in DOMAIN used

\* C2: a file whose typesetting engine exited non-zero is not in the registry,
\* is reported failed once its handling is over, and is in no registry read
\* by the assembler.
C2_EngineFailureFailsFile ==
    \A f \in Files :
        <<f, "engine_nonzero">> \in executed =>
            /\ f \notin DOMAIN generated_files
            /\ Finished(f) => f \in failed
            /\ \A s \in DOMAIN used : f \notin DOMAIN used[s]

\* C3: without force-rebuild, an output file that exists at the start of the
\* run keeps its bytes through the whole run, its source is registered as
\* soon as the loop has passed it, and it is in the registry read by every
\* assembly step.
C3_ExistingOutputKeptAndRegistered ==
    \A f \in Files :
        (~FORCE_REBUILD /\ fs0[OutputHtmlPath(f)] # Absent) =>
            /\ fs[OutputHtmlPath(f)] = fs0[OutputHtmlPath(f)]
            /\ Finished(f) => f \in DOMAIN generated_files
            /\ \A s \in DOMAIN used : f \in DOMAIN used[s]

C3_Witness ==
    /\ pc = "done" /\ ~FORCE_REBUILD
    /\ \E f \in Files, g \in Files :
         /\ fs0[OutputHtmlPath(f)] # Absent
         /\ {"dir", "root", "sitemap"} \subseteq DOMAIN used
         /\ f \in DOMAIN used["sitemap"]
         /\ <<g, "post">> \in executed /\ g \in DOMAIN generated_files
         /\ fs[DirIndexPath("src-local")] # Absent /\ fs[INDEX_PATH] # Absent

\* C4: assembly starts only when every discovered file has its final outcome
\* (registered or failed), and once assembly has started the registry is
\* never modified.
C4_AssemblyAfterAllFiles ==
    /\ [](AssemblyStarted => \A f \in Files : HasOutcome(f))
    /\ [][AssemblyStarted => generated_files' = generated_files]_vars

C4_Witness ==
    /\ pc = "done" /\ Len(source_files) = 2
    /\ failed # {} /\ DOMAIN generated_files # {}
    /\ \E f \in Files : fs0[OutputHtmlPath(f)] # Absent /\ f \in DOMAIN generated_files

\* C5: every registry entry maps a source to the path under docs/ that
\* mirrors the source's relative path with ".html" appended to the file name,
\* and no two entries share an output path.
C5_RegistryMirrorsSources ==
    /\ \A f \in DOMAIN generated_files :
         /\ generated_files[f].dir = <<"docs">> \o f.dir
         /\ generated_files[f].name = f.name \o <<".", "html">>
    /\ \A f, g \in DOMAIN generated_files :
         generated_files[f] = generated_files[g] => f = g

C5_Witness ==
    /\ DOMAIN generated_files = {src_local_a_c, src_local_a_h}
    /\ <<src_local_a_c, "post">> \in executed
    /\ pc = "done"

\* C6: when the template, the engine binary, the literate-conversion script
\* or the declaration-anchor script is absent, no transform, typesetting or
\* post-processing step is executed for any file.
C6_MissingPrerequisiteStopsBeforeFiles ==
    missing \cap {"TEMPLATE_PATH", "pandoc", "literate-c", "decl_anchors.awk"} # {} =>
        \A e \in executed : e[2] \notin FileStages

\* C7: a child process that never exits does not block the batch: the run
\* still comes to its end.
C7_NoInvocationBlocksForever ==
    (step \in WaitSteps /\ proc = "hung") ~> (pc \in Terminal)

(***************************************************************************)
(* Properties of the HTML injections                                       *)
(***************************************************************************)
\* C8: applying insert_javascript_in_html twice leaves the file as it was
\* after the first application.
C8_CopyButtonIdempotent ==
    (html_op = "js" /\ html_count = Applications) => html_content = html_once

\* C9: applying insert_css_link_in_html twice, with either is_root, leaves
\* the file as it was after the first application.
C9_CssLinkIdempotent ==
    (html_op = "css" /\ html_count = Applications) => html_content = html_once

C9_Witness ==
    /\ html_op = "css" /\ html_count = Applications /\ ~is_root
    /\ html_once # html_orig
    /\ Has(html_orig, "<head>") /\ ~Has(html_orig, "</head>")

(***************************************************************************)
(* Properties of process_python_file                                       *)
(***************************************************************************)
\* fences alternate, opener first, and the last opener is closed
RECURSIVE Balanced(_, _)
Balanced(out, open) ==
    IF out = <<>> THEN ~open
    ELSE IF Head(out) = FenceOpen THEN ~open /\ Balanced(Tail(out), TRUE)
    ELSE IF Head(out) = FenceClose THEN open /\ Balanced(Tail(out), FALSE)
    ELSE Balanced(Tail(out), open)

EndsWith(s, t) == Len(t) <= Len(s) /\ SubSeq(s, Len(s) - Len(t) + 1, Len(s)) = t

\* C10: whatever the lines and the state the parser ends in, the returned
\* markup has balanced fences, and a code block or docstring still open at
\* end of file is written out at the end of the markup.
C10_FencesBalancedAndPendingEmitted ==
    /\ Balanced(processed_lines, FALSE)
    /\ py_done =>
         /\ in_code_block => EndsWith(processed_lines, <<FenceOpen>> \o code_block \o <<FenceClose>>)
         /\ in_docstring => EndsWith(processed_lines, <<Blank>> \o docstring_lines \o <<Blank>>)
         /\ \A i \in 1..Len(lines) :
              (~IsDelimiterLine(lines[i]) /\ Strip(lines[i]) # <<>>
               /\ \A j \in 1..Len(lines) : ~IsDelimiterLine(lines[j]))
                  => Has(processed_lines, lines[i])

C10_Witness ==
    /\ py_done /\ in_docstring /\ docstring_lines # <<>>
    /\ Has(processed_lines, FenceOpen)
    /\ Len(lines) = MaxLines

(***************************************************************************)
(* Reading of a script as Python reads it: a triple quote opens a string   *)
(* wherever it stands on a line, and the same triple quote closes it.      *)
(***************************************************************************)
RefToken(mode, t) ==
    IF t \notin {Q3, A3} THEN mode
    ELSE IF mode = "code" THEN t
    ELSE IF mode = t THEN "code" ELSE mode

RECURSIVE RefLine(_, _)
RefLine(mode, l) == IF l = <<>> THEN mode ELSE RefLine(RefToken(mode, Head(l)), Tail(l))

\* the mode in which line n + 1 starts
RECURSIVE RefAfter(_, _)
RefAfter(ls, n) == IF n = 0 THEN "code" ELSE RefLine(RefAfter(ls, n - 1), ls[n])

\* the text tokens of line i that lie inside a docstring
RECURSIVE DocTokens(_, _)
DocTokens(mode, l) ==
    IF l = <<>> THEN {}
    ELSE (IF mode # "code" /\ Head(l) \notin {Q3, A3, " "} THEN {Head(l)} ELSE {})
         \cup DocTokens(RefToken(mode, Head(l)), Tail(l))

IsFenceLine(l) == l = FenceOpen \/ l = FenceClose

\* position k of the markup lies between an opening fence and its closing fence
InsideFence(out, k) ==
    Cardinality({j \in 1..(k - 1) : out[j] = FenceOpen})
      > Cardinality({j \in 1..(k - 1) : out[j] = FenceClose})

ProseHas(out, tok) ==
    \E k \in 1..Len(out) : ~IsFenceLine(out[k]) /\ ~InsideFence(out, k) /\ Has(out[k], tok)

FencedLine(out, l) ==
    \E k \in 1..Len(out) : out[k] = l /\ InsideFence(out, k)

\* a non-blank line without quotes that starts in code mode
PureCodeLine(ls, i) ==
    /\ RefAfter(ls, i - 1) = "code"
    /\ Strip(ls[i]) # <<>>
    /\ ~Has(ls[i], Q3) /\ ~Has(ls[i], A3)

\* C11: in the returned markup the text of every docstring stands as prose
\* outside the fences, and every non-blank line that follows a closed
\* docstring (a line read in code mode) stands inside a python fence.
C11_DocstringsAreProseThenCode ==
    py_done =>
        \A i \in 1..Len(lines) :
            /\ \A tok \in DocTokens(RefAfter(lines, i - 1), lines[i]) : ProseHas(processed_lines, tok)
            /\ PureCodeLine(lines, i) => FencedLine(processed_lines, lines[i])

(***************************************************************************)
(* Code blocks of the markup against the runs of lines of the script       *)
(***************************************************************************)
\* the contents of the fenced blocks of the markup, in order
RECURSIVE Blocks(_, _, _)
Blocks(out, open, cur) ==
    IF out = <<>> THEN <<>>
    ELSE IF Head(out) = FenceOpen THEN Blocks(Tail(out), TRUE, <<>>)
    ELSE IF Head(out) = FenceClose THEN <<cur>> \o Blocks(Tail(out), FALSE, <<>>)
    ELSE IF open THEN Blocks(Tail(out), TRUE, Append(cur, Head(out)))
    ELSE Blocks(Tail(out), FALSE, cur)

\* line i is read outside docstrings: an even number of delimiter lines precede it
ReadAsCode(ls, i) ==
    /\ ~IsDelimiterLine(ls[i])
    /\ Cardinality({j \in 1..(i - 1) : IsDelimiterLine(ls[j])}) % 2 = 0

NonBlankCode(ls, i) == ReadAsCode(ls, i) /\ Strip(ls[i]) # <<>>

\* the intervals <<a, b>> in increasing order, as the sequence of their lines
RECURSIVE IntervalLines(_, _)
IntervalLines(ls, S) ==
    IF S = {} THEN <<>>
    ELSE LET first == CHOOSE p \in S : \A q \in S : p[1] <= q[1]
         IN <<SubSeq(ls, first[1], first[2])>> \o IntervalLines(ls, S \ {first})

\* maximal runs of contiguous non-blank lines outside docstrings
NonBlankRuns(ls) ==
    {<<a, b>> \in (1..Len(ls)) \X (1..Len(ls)) :
        /\ a <= b
        /\ \A i \in a..b : NonBlankCode(ls, i)
        /\ a = 1 \/ ~NonBlankCode(ls, a - 1)
        /\ b = Len(ls) \/ ~NonBlankCode(ls, b + 1)}

\* runs that start at the first non-blank line of a stretch of lines outside
\* docstrings and reach to the next delimiter line or the end of the script
SectionRuns(ls) ==
    {<<a, b>> \in (1..Len(ls)) \X (1..Len(ls)) :
        /\ a <= b
        /\ NonBlankCode(ls, a)
        /\ \A i \in a..b : ReadAsCode(ls, i)
        /\ b = Len(ls) \/ IsDelimiterLine(ls[b + 1])
        /\ \A j \in 1..(a - 1) : (\A m \in j..a : ReadAsCode(ls, m)) => Strip(ls[j]) = <<>>}

\* C12 as stated: the fenced blocks are exactly the maximal runs of
\* contiguous non-blank lines outside docstrings (a blank line ends a block).
C12_BlockPerNonBlankRun ==
    py_done => Blocks(processed_lines, FALSE, <<>>) = IntervalLines(lines, NonBlankRuns(lines))

\* C12 amended: a fenced block starts at the first non-blank line read
\* outside docstrings and holds every line, blank ones included, up to the
\* next delimiter line or the end of the script; there is exactly one block
\* per such stretch.
C12_BlockPerSection ==
    py_done => Blocks(processed_lines, FALSE, <<>>) = IntervalLines(lines, SectionRuns(lines))

C12_Witness ==
    /\ py_done
    /\ lines = <<<<"x">>, Blank, <<" ", "y">>, <<Q3>>>>
    /\ Blocks(processed_lines, FALSE, <<>>) = <<SubSeq(lines, 1, 3)>>

\* C13 (for the interpreted-script kind, the branch of prepare_pandoc_input
\* that calls process_python_file): whatever the script holds, the returned
\* markup has at least one line that is not blank.
C13_MarkupNeverBlank ==
    py_done => \E k \in 1..Len(processed_lines) : Strip(processed_lines[k]) # <<>>

\* C14: for a compiled-language source, the markup process_c_file returns
\* is the collaborator's output (its literate fences renamed) only when
\* the collaborator exited with code 0 and wrote non-blank output; after a
\* non-zero exit, blank output or a failed start it is the plain fenced
\* block of the raw source; and the end of the collaborator never fails
\* the file.
C14_LiterateOutputOnlyOnCleanExit ==
    /\ (InLoop /\ step = "typeset" /\ IsCFile(CurFile) =>
            /\ literate.outcome \in {"not_started", "exited"}
            /\ IF /\ literate.outcome = "exited"
                  /\ literate.returncode = 0
                  /\ \E i \in 1..Len(literate.content) : literate.content[i] # " "
               THEN /\ pandoc_input_content # PlainCBlock
                    /\ Len(pandoc_input_content) = Len(literate.content)
                    /\ \A i \in 1..Len(literate.content) :
                          \/ pandoc_input_content[i] = literate.content[i]
                          \/ /\ literate.content[i] = "~~~literatec"
                             /\ pandoc_input_content[i] = "~~~c"
               ELSE pandoc_input_content = PlainCBlock)
    /\ literate.outcome # "none" => InLoop /\ step = "typeset" /\ CurFile \notin failed

C14_Witness ==
    /\ InLoop /\ step = "typeset" /\ IsCFile(CurFile)
    /\ literate.outcome = "exited" /\ literate.returncode = 1
    /\ literate.content = <<"prose", "~~~literatec", "code", "~~~">>
    /\ pandoc_input_content = PlainCBlock

\* C17: for every notebook that was processed successfully, the SEO
\* metadata comment of the transformer was read by extract_seo_metadata
\* exactly once, is not in the markup that was handed to pandoc, and is not
\* in the final output HTML.
C17_SeoCommentConsumedAndStripped ==
    \A f \in DOMAIN generated_files :
        (IsNotebook(f) /\ <<f, "post">> \in executed) =>
            /\ f \in DOMAIN seo_reads => seo_reads[f] = 1
            /\ f \in DOMAIN handed => ~Has(handed[f], SeoComment)
            /\ ~Has(fs[OutputHtmlPath(f)], SeoComment)

(***************************************************************************)
(* Properties of extract_seo_metadata                                      *)
(***************************************************************************)
SeoReturned == seo_state \in {"returned_embedded", "returned_heuristic"}

\* C15: on both paths, a description that extract_seo_metadata returns has
\* at most 160 characters and none of the characters <, > and ".
C15_DescriptionShortAndSafe ==
    (SeoReturned /\ seo_metadata.description # NoKey) =>
        /\ Len(seo_metadata.description) <= DescLimit
        /\ \A i \in 1..Len(seo_metadata.description) :
              seo_metadata.description[i] \notin {"<", ">", "\""}

\* the description and keywords the heuristic derivation gives for the content
HeuristicDescription ==
    IF seo_content.paragraph # NoMatch
    THEN SafeForAttribute(ParagraphDescription(seo_content.paragraph))
    ELSE DefaultDescription

\* the embedded description without tags, quotes, backslashes and angle brackets
EmbeddedDescription ==
    IF seo_content.embedded.description = NoKey THEN NoKey
    ELSE SelectSeq(StripTags(seo_content.embedded.description),
                   LAMBDA c : c \notin {"\"", "'", "\\", "<", ">"})

C18_StackCoversDepthNoException ==
    /\ tree_state # "raised"
    /\ (tree_state \in {"parsing", "returned"} /\ tree_i > 1) => Len(path_stack) >= prev_indent

\* the tree 'src/ - desc', '  file.py - desc2'
C19_Tree == <<<<"src", "/", " ", "-", " ", "desc">>,
              <<" ", " ", "file.py", " ", "-", " ", "desc2">>>>

\* C19: for the tree 'src/ - desc', '  file.py - desc2' the list has a
\* directory item that links to 'src' and, nested below it, a file item
\* that links to 'src/file.py.html'; the text after each name is the
\* description of its item.
C19_FileLinksUnderDirectory ==
    (tree_state = "returned" /\ tree_lines = C19_Tree) =>
        /\ Len(html_structure) = 2
        /\ html_structure[1].target = <<"src">>
        /\ html_structure[1].description = <<"-", "desc">>
        /\ html_structure[2].target = <<"src", "/", "file.py", ".html">>
        /\ html_structure[2].description = <<"-", "desc2">>
        /\ html_structure[2].indent = html_structure[1].indent + 1

(***************************************************************************)
(* Properties of create_include_link                                       *)
(***************************************************************************)
\* C20: for a compiled-language source at the root, in a source directory
\* or nested below one, and every #include "name" of its page: when name
\* is a file of src-local, the link, resolved against the directory of the
\* page's output file, is docs/src-local/<name>.html; otherwise the link
\* is http://basilisk.fr/src/<name>.
C20_IncludeLinkReachesPage ==
    \A k \in 1..Len(inc_links) :
        inc_includes[k].dir = <<>> =>
            IF inc_includes[k].name \in inc_local
            THEN /\ inc_links[k].kind = "relative"
                 /\ Resolve(OutputHtmlPath(inc_file).dir, inc_links[k].segments)
                       = <<"docs", "src-local">>
                 /\ inc_links[k].name = inc_includes[k].name \o Html
            ELSE inc_links[k] = [kind |-> "external", segments |-> <<"http://basilisk.fr/src">>,
                                 name |-> inc_includes[k].name]

(***************************************************************************)
(* Properties of fix_doc_links                                             *)
(***************************************************************************)
\* the value of the href attribute of an anchor
HrefOf(a) == a.attrs[CHOOSE i \in 1..Len(a.attrs) : a.attrs[i].name = "href"].value

\* an absolute URL
ExternalHref(href) == Len(href) >= 2 /\ href[1] = "http" /\ href[2] = "://e/"

\* the href is one the page has to redirect to a documentation page
LocalSourceHref(href) ==
    /\ SourceExtension(href)
    /\ ~ExternalHref(href)
    /\ Head(href) # "#"
    /\ href[Len(href)] # ".html"

\* C21: when post_process_python_shell_html has returned, the href of every
\* anchor that points at a local file with a source extension is the
\* original href followed by .html, whatever the other attributes and the
\* content of the anchor are, and every other href is the original one.
C21_SourceLinksGetHtmlSuffix ==
    link_state = "returned" =>
        \A i \in 1..Len(link_html) :
            HrefOf(link_out[i]) = IF LocalSourceHref(HrefOf(link_html[i]))
                                  THEN Append(HrefOf(link_html[i]), ".html")
                                  ELSE HrefOf(link_html[i])

(***************************************************************************)
(* Properties of calculate_asset_prefix                                    *)
(***************************************************************************)
\* the page lies below the documentation root
UnderDocs == Len(output_path) > Len(docs_dir) /\ Prefix(output_path, Len(docs_dir)) = docs_dir

\* the number of directories between the documentation root and the page
DirsBelowDocs == Len(output_path) - Len(docs_dir) - 1

\* the directory a relative reference made of . and .. segments leads to
RECURSIVE FollowDots(_, _)
FollowDots(dir, segments) ==
    IF segments = <<>> THEN dir
    ELSE IF Head(segments) = "." THEN FollowDots(dir, Tail(segments))
    ELSE FollowDots(Prefix(dir, Len(dir) - 1), Tail(segments))

\* C22: the prefix returned for a page N directories below the documentation
\* root is "." for N = 0 and N times ".." for N >= 1, and followed from the
\* directory of the page it leads to the documentation root; for a page
\* outside the documentation root it is ".".
C22_PrefixLeadsToDocsRoot ==
    prefix_state = "returned" =>
        IF UnderDocs
        THEN /\ asset_path_prefix = IF DirsBelowDocs = 0 THEN <<".">>
                                    ELSE [i \in 1..DirsBelowDocs |-> ".."]
             /\ FollowDots(Prefix(output_path, Len(output_path) - 1), asset_path_prefix) = docs_dir
        ELSE asset_path_prefix = <<".">>

\* a page three directories below the root got ../../..
C22_Witness ==
    /\ prefix_state = "returned" /\ UnderDocs /\ DirsBelowDocs = 3
    /\ asset_path_prefix = <<"..", "..", "..">>

(***************************************************************************)
(* Properties of process_jupyter_notebook                                  *)
(***************************************************************************)
\* the source of the first markdown cell of the notebook
FirstMarkdownSource ==
    nb_cells[CHOOSE i \in 1..Len(nb_cells) :
                 /\ nb_cells[i].cell_type = "markdown"
                 /\ \A j \in 1..(i - 1) : nb_cells[j].cell_type # "markdown"].source

IsPlainText(line) == line \in {"p", "q"}

\* the lines of plain text that follow the heading at line h after one
\* empty line, up to the next line that is not plain text
RECURSIVE TextRun(_, _)
TextRun(source, i) ==
    IF i <= Len(source) /\ IsPlainText(source[i]) THEN <<source[i]>> \o TextRun(source, i + 1)
    ELSE <<>>

ParagraphAfterHeading(source) ==
    LET h == Find(source, "# T")
    IN IF h # 0 /\ h + 1 <= Len(source) /\ source[h + 1] = "" THEN TextRun(source, h + 2)
       ELSE <<>>

\* the paragraph after the heading ends the cell or is followed by an empty line
ParagraphIsWhole(source) ==
    LET h == Find(source, "# T")
        end == h + 1 + Len(ParagraphAfterHeading(source))
    IN end = Len(source) \/ source[end + 1] = ""

\* C23: the metadata are those of the first markdown cell: the title is its
\* first heading, the description is the paragraph of text that follows the
\* heading, the features are its first three list items at most, and the
\* default features are used only for a cell without any list item.
C23_MetadataOfFirstMarkdownCell ==
    nb_state = "returned" =>
        LET source == FirstMarkdownSource
        IN /\ Find(source, "# T") # 0 => notebook_title = "T"
           /\ ParagraphAfterHeading(source) # <<>> /\ ParagraphIsWhole(source) =>
                  notebook_description = ParagraphAfterHeading(source)
           /\ notebook_features = IF FeaturesMatch(source) = <<>> THEN DefaultNotebookFeatures
                                  ELSE FirstThree(FeaturesMatch(source))

(***************************************************************************)
(* Properties of find_source_files                                         *)
(***************************************************************************)
InResult(f) == \E i \in 1..Len(find_result) : find_result[i] = f

RecognizedKind(f) == NameOf(f) = "Makefile" \/ SuffixOf(f) \in {".c", ".h", ".py", ".sh", ".ipynb"}

UnderSourceDir(f) == Len(f) >= 2 /\ f[1] \in {"src-local", "simulationCases", "postProcess"}

\* a file below a source directory, at any depth, is in the result if and
\* only if it is of a recognized kind, and no file below another directory is
SubdirectoriesScanned ==
    \A f \in repo_files :
        Len(f) >= 2 => (InResult(f) <=> UnderSourceDir(f) /\ RecognizedKind(f))

C25_SummaryCountsReported ==
    pc = "done" =>
        \E m \in MainClosingOutput :
            m.numbers = <<Cardinality(DOMAIN generated_files), Cardinality(failed)>>

(***************************************************************************)
(* Properties of convert_directory_tree_to_html: nested directories        *)
(***************************************************************************)
\* the path written on line j of the tree, without its final slash
TreeNameAt(j) == RStripSlash(PathOf(CleanLine(tree_lines[j])))

\* the tree is one chain: line j is one level deeper than line j - 1, and
\* every line but the last is a directory
TreeIsChain ==
    \A j \in 1..Len(tree_lines) :
        /\ IndentLevel(tree_lines[j]) = j - 1
        /\ j < Len(tree_lines) => IsDir(PathOf(CleanLine(tree_lines[j])))

\* the names of lines 1..j joined by slashes
RECURSIVE ChainPath(_)
ChainPath(j) == IF j = 1 THEN TreeNameAt(1) ELSE ChainPath(j - 1) \o <<"/">> \o TreeNameAt(j)

\* C26: in a tree that is a chain of nested directories d1/, ..., dk/ with an
\* entry below, every directory links to its full path d1/.../dj and a file
\* at the end links to d1/.../dk/<file>.html.
C26_NestedEntriesLinkToFullPath ==
    (tree_state = "returned" /\ TreeIsChain /\ Len(tree_lines) = 3) =>
        \A j \in 1..Len(tree_lines) :
            html_structure[j].target =
                IF IsDir(PathOf(CleanLine(tree_lines[j]))) THEN ChainPath(j)
                ELSE ChainPath(j) \o <<".html">>

(***************************************************************************)
(* Properties of main() run again on the output of an earlier run          *)
(***************************************************************************)
\* the earlier run failed on f after the engine had written its page
LeftByFailedRun(f) == IsCFile(f) /\ fs0[OutputHtmlPath(f)] = LeftoverPage

\* C27: in a run without force-rebuild that follows a run which failed on a
\* file after the engine had written its page, that file is processed again
\* (it is not skipped as existing), and it is in the registry only with a
\* page other than the leftover one.
C27_LeftoverNotSkippedNorRegistered ==
    \A f \in Files :
        LeftByFailedRun(f) =>
            /\ Finished(f) => <<f, "transform">> \in executed
            /\ f \in DOMAIN generated_files => fs[OutputHtmlPath(f)] # LeftoverPage

\* a state in which a run under Spec ends: it failed on a C file whose page,
\* as written by the engine, is still under docs/
FirstRunLeavesPage ==
    /\ pc \in Terminal
    /\ \E f \in failed : IsCFile(f) /\ <<f, "post">> \in executed
                         /\ fs[OutputHtmlPath(f)] = LeftoverPage

(***************************************************************************)
(* Properties of extract_seo_metadata: repeated invocation                 *)
(***************************************************************************)
\* C28: an invocation with the file path and the content of an earlier one
\* returns the description and the keywords the earlier one returned, also
\* when more than ten keywords are found.
C28_SameArgumentsSameMetadata ==
    (SeoReturned /\ seo_first # <<>>) => seo_metadata = seo_first[1]

(***************************************************************************)
(* Properties of process_python_file: every line is kept                   *)
(***************************************************************************)
\* the elements of a set of numbers in increasing order
RECURSIVE Ascending(_)
Ascending(S) ==
    IF S = {} THEN <<>>
    ELSE LET least == CHOOSE a \in S : \A b \in S : a <= b
         IN <<least>> \o Ascending(S \ {least})

\* the non-blank lines of the script that do not begin with a triple quote
KeptLines(ls) == Ascending({i \in 1..Len(ls) : ~IsDelimiterLine(ls[i]) /\ Strip(ls[i]) # <<>>})

\* the non-blank lines of the markup other than the fences
TextLines(out) == Ascending({k \in 1..Len(out) : ~IsFenceLine(out[k]) /\ Strip(out[k]) # <<>>})

BlankCount(s, S) == Cardinality({i \in S : Strip(s[i]) = <<>>})

\* the delimiter line that opens the docstring closed by the delimiter line b
OpenerOf(ls, b) == CHOOSE a \in 1..(b - 1) :
                       IsDelimiterLine(ls[a]) /\ \A j \in (a + 1)..(b - 1) : ~IsDelimiterLine(ls[j])

\* the delimiter lines that close a docstring of at least one line
ClosersOfText(ls) ==
    {b \in 1..Len(ls) :
        /\ IsDelimiterLine(ls[b])
        /\ Cardinality({j \in 1..b : IsDelimiterLine(ls[j])}) % 2 = 0
        /\ OpenerOf(ls, b) < b - 1}

OpenAtEnd(ls) == Cardinality({j \in 1..Len(ls) : IsDelimiterLine(ls[j])}) % 2 = 1

\* the blank lines of the markup are those of the script and the two that
\* are put around every docstring written out
BlankLinesKept ==
    BlankCount(processed_lines, {k \in 1..Len(processed_lines) : ~IsFenceLine(processed_lines[k])})
      = BlankCount(lines, {i \in 1..Len(lines) : ~IsDelimiterLine(lines[i])})
        + 2 * Cardinality(ClosersOfText(lines)) + (IF OpenAtEnd(lines) THEN 2 ELSE 0)

\* a delimiter line follows line i: the docstring line i lies in gets closed
ClosedAfter(ls, i) == \E j \in (i + 1)..Len(ls) : IsDelimiterLine(ls[j])

\* a line without the whitespace around it and without a triple quote at its end
WithoutQuoteAtEnd(l) ==
    IF EndsWithQuote(Strip(l)) THEN Strip(SubSeq(Strip(l), 1, Len(Strip(l)) - 1)) ELSE Strip(l)

\* C29 as stated: the lines of the script that do not begin with a triple
\* quote are the lines of the markup other than the fences and the blank
\* lines around docstrings, in the same order; a line read outside
\* docstrings stands unchanged inside a fence, a line read inside a
\* docstring stands outside every fence, changed at most in the whitespace
\* around it.
C29_EveryLineOnceInOrder ==
    py_done =>
        LET in == KeptLines(lines)
            out == TextLines(processed_lines)
        IN /\ Len(in) = Len(out)
           /\ BlankLinesKept
           /\ \A k \in 1..Len(in) :
                 IF ReadAsCode(lines, in[k])
                 THEN /\ processed_lines[out[k]] = lines[in[k]]
                      /\ InsideFence(processed_lines, out[k])
                 ELSE /\ Strip(processed_lines[out[k]]) = Strip(lines[in[k]])
                      /\ ~InsideFence(processed_lines, out[k])

\* C29, amended: as above, but a line read inside a docstring that gets
\* closed loses, besides the whitespace around it, a triple quote at its end.
C29_EveryLineOnceUpToEndQuote ==
    py_done =>
        LET in == KeptLines(lines)
            out == TextLines(processed_lines)
        IN /\ Len(in) = Len(out)
           /\ BlankLinesKept
           /\ \A k \in 1..Len(in) :
                 IF ReadAsCode(lines, in[k])
                 THEN /\ processed_lines[out[k]] = lines[in[k]]
                      /\ InsideFence(processed_lines, out[k])
                 ELSE /\ Strip(processed_lines[out[k]]) =
                            IF ClosedAfter(lines, in[k]) THEN WithoutQuoteAtEnd(lines[in[k]])
                            ELSE Strip(lines[in[k]])
                      /\ ~InsideFence(processed_lines, out[k])

\* a script with text before, inside and after a closed docstring, the
\* docstring line ending with a triple quote
C29_Witness ==
    /\ py_done
    /\ lines = <<<<"x">>, <<Q3>>, <<"e", Q3>>, <<" ", A3>>>>
    /\ processed_lines = <<FenceOpen, <<"x">>, FenceClose, Blank, <<"e">>, Blank>>

(***************************************************************************)
(* Properties of fix_html_file                                             *)
(***************************************************************************)
HasEmptyAnchor(content) == \E i \in 1..Len(content) : MatchesEmptyAnchorPattern(content[i])

\* C30: when fix_html_file has returned, a file in which the patterns match
\* an empty anchor, of whatever length, holds apply_empty_anchor_cleanup of
\* its original content and the count returned is positive, unless dry_run
\* is set; with dry_run set, or without a match, the file is as it was.
C30_EmptyAnchorsRemoved ==
    fix_state = "returned" =>
        IF ~dry_run /\ HasEmptyAnchor(html_file0)
        THEN /\ html_file = apply_empty_anchor_cleanup(html_file0)
             /\ replacements > 0
        ELSE html_file = html_file0

====
